------------------------------ MODULE Spec2Model ------------------------------
(***************************************************************************)
(* Product matching and relevance ranking of products/search.py, the       *)
(* favourites toggle of products/views.py and the Telegram linking of      *)
(* accounts/views.py.                                                      *)
(*                                                                         *)
(* Text is a sequence of Unicode code points, so that lower-casing, the    *)
(* folding of "ё", whitespace splitting and the regular expressions of the *)
(* source are computed character by character.  An Optional[...] value is  *)
(* a sequence of length 0 (None) or 1 (the value).  A float parsed from a  *)
(* decimal literal is the exact rational [num, den].  A price is a whole   *)
(* number of kopecks (DecimalField with decimal_places=2).                 *)
(***************************************************************************)
EXTENDS Integers, Sequences, FiniteSets, TLC

(***************************************************************************)
(* Characters                                                              *)
(***************************************************************************)
IsUpperLatin(c) == c \in 65..90
IsLowerLatin(c) == c \in 97..122
IsUpperCyr(c) == c \in 1040..1071 \/ c = 1025
IsLowerCyr(c) == c \in 1072..1103 \/ c = 1105
IsDigit(c) == c \in 48..57
IsSpace(c) == c \in {9, 10, 11, 12, 13, 32}
IsCased(c) == IsUpperLatin(c) \/ IsLowerLatin(c) \/ IsUpperCyr(c) \/ IsLowerCyr(c)
\* \w of the re module on str patterns: letters, digits and the underscore.
IsWordChar(c) == IsCased(c) \/ IsDigit(c) \/ c = 95

\* str.lower() on one character.
LowerChar(c) ==
  IF IsUpperLatin(c) \/ c \in 1040..1071 THEN c + 32
  ELSE IF c = 1025 THEN 1105 ELSE c

\* str.upper() on one character.
UpperChar(c) ==
  IF IsLowerLatin(c) \/ c \in 1072..1103 THEN c - 32
  ELSE IF c = 1105 THEN 1025 ELSE c

\* str.lower()
Lower(s) == [i \in 1..Len(s) |-> LowerChar(s[i])]

\* str.upper()
Upper(s) == [i \in 1..Len(s) |-> UpperChar(s[i])]

\* str.strip()
Strip(s) ==
  LET kept == {i \in 1..Len(s) : ~IsSpace(s[i])}
  IN  IF kept = {} THEN <<>>
      ELSE SubSeq(s, CHOOSE i \in kept : \A j \in kept : i <= j,
                     CHOOSE i \in kept : \A j \in kept : j <= i)

\* str.title(): a cased character is upper-cased after an uncased one (or at
\* the start) and lower-cased after a cased one.
Title(s) ==
  [i \in 1..Len(s) |->
     IF i = 1 \/ ~IsCased(s[i - 1]) THEN UpperChar(s[i]) ELSE LowerChar(s[i])]

\* str.replace('ё', 'е')
ReplaceYo(s) == [i \in 1..Len(s) |-> IF s[i] = 1105 THEN 1077 ELSE s[i]]

\* sub in s
Contains(sub, s) ==
  \E i \in 0..(Len(s) - Len(sub)) : SubSeq(s, i + 1, i + Len(sub)) = sub

\* s.startswith(p), s.endswith(p)
StartsWith(s, p) == Len(p) <= Len(s) /\ SubSeq(s, 1, Len(p)) = p
EndsWith(s, p) == Len(p) <= Len(s) /\ SubSeq(s, Len(s) - Len(p) + 1, Len(s)) = p

\* The maximal runs of the characters of s that mask keeps, left to right:
\* what str.split() yields for the non-whitespace characters, re.split for
\* the non-delimiters (empty pieces aside) and re.findall for a character
\* class.  mask[i] tells whether s[i] belongs to the class.
RECURSIVE RunsFrom(_, _, _, _, _)
RunsFrom(s, mask, i, cur, acc) ==
  IF i > Len(s) THEN (IF cur = <<>> THEN acc ELSE Append(acc, cur))
  ELSE IF mask[i] THEN RunsFrom(s, mask, i + 1, Append(cur, s[i]), acc)
  ELSE RunsFrom(s, mask, i + 1, <<>>, IF cur = <<>> THEN acc ELSE Append(acc, cur))

Runs(s, mask) == RunsFrom(s, mask, 1, <<>>, <<>>)

\* s.split()
Split(s) == Runs(s, [i \in 1..Len(s) |-> ~IsSpace(s[i])])

RECURSIVE JoinSpace(_)
\* ' '.join(words)
JoinSpace(words) ==
  IF words = <<>> THEN <<>>
  ELSE IF Len(words) = 1 THEN words[1]
  ELSE words[1] \o <<32>> \o JoinSpace(Tail(words))

SeqToSet(q) == {q[i] : i \in 1..Len(q)}

\* [q[i] for i in range(len(q)) if mask[i]]
RECURSIVE PickFrom(_, _, _)
PickFrom(q, mask, i) ==
  IF i > Len(q) THEN <<>>
  ELSE (IF mask[i] THEN <<q[i]>> ELSE <<>>) \o PickFrom(q, mask, i + 1)

Pick(q, mask) == PickFrom(q, mask, 1)

\* PRODUCT_TYPES, in declaration order: <<canonical type, <<keywords>>>>.
PRODUCT_TYPES ==
  << <<<<1084,1086,1083,1086,1082,1086>>, <<<<1084,1086,1083,1086,1082,1086>>, <<1084,1086,1083,1086,1095,1082,1086>>>>>>  \* молоко: молоко, молочко
   , <<<<1082,1077,1092,1080,1088>>, <<<<1082,1077,1092,1080,1088>>>>>>  \* кефир: кефир
   , <<<<1081,1086,1075,1091,1088,1090>>, <<<<1081,1086,1075,1091,1088,1090>>, <<1081,1086,1075,1091,124,1088,1090>>>>>>  \* йогурт: йогурт, йогу|рт
   , <<<<1090,1074,1086,1088,1086,1075>>, <<<<1090,1074,1086,1088,1086,1075>>, <<1090,1074,1086,1088,1086,1078,1086,1082>>, <<1090,1074,1086,1088,1086,1078,1085,1099,1081>>, <<1090,1074,1086,1088,1086,1078,1085,1072,1103>>, <<1090,1074,1086,1088,1086,1078,1085,1086,1077>>>>>>  \* творог: творог, творожок, творожный, творожная, творожное
   , <<<<1089,1084,1077,1090,1072,1085,1072>>, <<<<1089,1084,1077,1090,1072,1085,1072>>>>>>  \* сметана: сметана
   , <<<<1089,1083,1080,1074,1082,1080>>, <<<<1089,1083,1080,1074,1082,1080>>>>>>  \* сливки: сливки
   , <<<<1089,1099,1088>>, <<<<1089,1099,1088>>, <<1089,1099,1088,1086,1082>>, <<1089,1099,1088,1085,1099,1081>>, <<1089,1099,1088,1085,1072,1103>>>>>>  \* сыр: сыр, сырок, сырный, сырная
   , <<<<1084,1072,1089,1083,1086>>, <<<<1084,1072,1089,1083,1086>>>>>>  \* масло: масло
   , <<<<1082,1086,1083,1073,1072,1089,1072>>, <<<<1082,1086,1083,1073,1072,1089,1072>>, <<1082,1086,1083,1073,1072,1089,1085,1099,1081>>, <<1082,1086,1083,1073,1072,1089,1085,1072,1103>>, <<1082,1086,1083,1073,1072,1089,1082,1080>>>>>>  \* колбаса: колбаса, колбасный, колбасная, колбаски
   , <<<<1089,1086,1089,1080,1089,1082,1080>>, <<<<1089,1086,1089,1080,1089,1082,1080>>, <<1089,1086,1089,1080,1089,1082,1072>>, <<1089,1072,1088,1076,1077,1083,1100,1082,1080>>, <<1089,1072,1088,1076,1077,1083,1100,1082,1072>>>>>>  \* сосиски: сосиски, сосиска, сардельки, сарделька
   , <<<<1074,1077,1090,1095,1080,1085,1072>>, <<<<1074,1077,1090,1095,1080,1085,1072>>>>>>  \* ветчина: ветчина
   , <<<<1073,1077,1082,1086,1085>>, <<<<1073,1077,1082,1086,1085>>>>>>  \* бекон: бекон
   , <<<<1082,1091,1088,1080,1094,1072>>, <<<<1082,1091,1088,1080,1094,1072>>, <<1082,1091,1088,1080,1085,1099,1081>>, <<1082,1091,1088,1080,1085,1072,1103>>, <<1082,1091,1088,1080,1085,1086,1077>>, <<1094,1099,1087,1083,1105,1085,1086,1082>>, <<1094,1099,1087,1083,1077,1085,1086,1082>>>>>>  \* курица: курица, куриный, куриная, куриное, цыплёнок, цыпленок
   , <<<<1080,1085,1076,1077,1081,1082,1072>>, <<<<1080,1085,1076,1077,1081,1082,1072>>, <<1080,1085,1076,1102,1096,1080,1085,1099,1081>>, <<1080,1085,1076,1102,1096,1080,1085,1072,1103>>>>>>  \* индейка: индейка, индюшиный, индюшиная
   , <<<<1089,1074,1080,1085,1080,1085,1072>>, <<<<1089,1074,1080,1085,1080,1085,1072>>, <<1089,1074,1080,1085,1086,1081>>, <<1089,1074,1080,1085,1072,1103>>, <<1089,1074,1080,1085,1086,1077>>>>>>  \* свинина: свинина, свиной, свиная, свиное
   , <<<<1075,1086,1074,1103,1076,1080,1085,1072>>, <<<<1075,1086,1074,1103,1076,1080,1085,1072>>, <<1075,1086,1074,1103,1078,1080,1081>>, <<1075,1086,1074,1103,1078,1100,1103>>, <<1075,1086,1074,1103,1078,1100,1077>>>>>>  \* говядина: говядина, говяжий, говяжья, говяжье
   , <<<<1092,1072,1088,1096>>, <<<<1092,1072,1088,1096>>>>>>  \* фарш: фарш
   , <<<<1088,1099,1073,1072>>, <<<<1088,1099,1073,1072>>, <<1088,1099,1073,1085,1099,1081>>, <<1088,1099,1073,1085,1072,1103>>, <<1088,1099,1073,1085,1086,1077>>>>>>  \* рыба: рыба, рыбный, рыбная, рыбное
   , <<<<1083,1086,1089,1086,1089,1100>>, <<<<1083,1086,1089,1086,1089,1100>>, <<1089,1105,1084,1075,1072>>, <<1089,1077,1084,1075,1072>>, <<1092,1086,1088,1077,1083,1100>>>>>>  \* лосось: лосось, сёмга, семга, форель
   , <<<<1082,1088,1077,1074,1077,1090,1082,1080>>, <<<<1082,1088,1077,1074,1077,1090,1082,1080>>, <<1082,1088,1077,1074,1077,1090,1082,1072>>>>>>  \* креветки: креветки, креветка
   , <<<<1093,1083,1077,1073>>, <<<<1093,1083,1077,1073>>, <<1093,1083,1077,1073,1077,1094>>, <<1093,1083,1077,1073,1094,1099>>>>>>  \* хлеб: хлеб, хлебец, хлебцы
   , <<<<1073,1072,1090,1086,1085>>, <<<<1073,1072,1090,1086,1085>>, <<1073,1072,1075,1077,1090>>>>>>  \* батон: батон, багет
   , <<<<1073,1091,1083,1082,1072>>, <<<<1073,1091,1083,1082,1072>>, <<1073,1091,1083,1086,1095,1082,1072>>, <<1073,1091,1083,1086,1095,1082,1080>>>>>>  \* булка: булка, булочка, булочки
   , <<<<1074,1080,1085,1086>>, <<<<1074,1080,1085,1086>>>>>>  \* вино: вино
   , <<<<1087,1080,1074,1086>>, <<<<1087,1080,1074,1086>>>>>>  \* пиво: пиво
   , <<<<1074,1086,1076,1082,1072>>, <<<<1074,1086,1076,1082,1072>>>>>>  \* водка: водка
   , <<<<1074,1080,1089,1082,1080>>, <<<<1074,1080,1089,1082,1080>>>>>>  \* виски: виски
   , <<<<1082,1086,1085,1100,1103,1082>>, <<<<1082,1086,1085,1100,1103,1082>>>>>>  \* коньяк: коньяк
   , <<<<1089,1086,1082>>, <<<<1089,1086,1082>>, <<1085,1077,1082,1090,1072,1088>>>>>>  \* сок: сок, нектар
   , <<<<1074,1086,1076,1072>>, <<<<1074,1086,1076,1072>>, <<1084,1080,1085,1077,1088,1072,1083,1082,1072>>, <<1084,1080,1085,1077,1088,1072,1083,1100,1085,1072,1103>>>>>>  \* вода: вода, минералка, минеральная
   , <<<<1083,1080,1084,1086,1085,1072,1076>>, <<<<1083,1080,1084,1086,1085,1072,1076>>, <<1075,1072,1079,1080,1088,1086,1074,1082,1072>>>>>>  \* лимонад: лимонад, газировка
   , <<<<1095,1072,1081>>, <<<<1095,1072,1081>>>>>>  \* чай: чай
   , <<<<1082,1086,1092,1077>>, <<<<1082,1086,1092,1077>>>>>>  \* кофе: кофе
   , <<<<1096,1086,1082,1086,1083,1072,1076>>, <<<<1096,1086,1082,1086,1083,1072,1076>>, <<1096,1086,1082,1086,1083,1072,1076,1082,1072>>, <<1096,1086,1082,1086,1083,1072,1076,1085,1099,1081>>, <<1096,1086,1082,1086,1083,1072,1076,1085,1072,1103>>>>>>  \* шоколад: шоколад, шоколадка, шоколадный, шоколадная
   , <<<<1082,1086,1085,1092,1077,1090,1099>>, <<<<1082,1086,1085,1092,1077,1090,1099>>, <<1082,1086,1085,1092,1077,1090,1072>>>>>>  \* конфеты: конфеты, конфета
   , <<<<1087,1077,1095,1077,1085,1100,1077>>, <<<<1087,1077,1095,1077,1085,1100,1077>>>>>>  \* печенье: печенье
   , <<<<1090,1086,1088,1090>>, <<<<1090,1086,1088,1090>>>>>>  \* торт: торт
   , <<<<1084,1086,1088,1086,1078,1077,1085,1086,1077>>, <<<<1084,1086,1088,1086,1078,1077,1085,1086,1077>>, <<1087,1083,1086,1084,1073,1080,1088>>, <<1101,1089,1082,1080,1084,1086>>>>>>  \* мороженое: мороженое, пломбир, эскимо
   , <<<<1095,1080,1087,1089,1099>>, <<<<1095,1080,1087,1089,1099>>>>>>  \* чипсы: чипсы
   , <<<<1103,1073,1083,1086,1082,1086>>, <<<<1103,1073,1083,1086,1082,1086>>, <<1103,1073,1083,1086,1082,1080>>, <<1103,1073,1083,1086,1095,1085,1099,1081>>, <<1103,1073,1083,1086,1095,1085,1072,1103>>>>>>  \* яблоко: яблоко, яблоки, яблочный, яблочная
   , <<<<1073,1072,1085,1072,1085>>, <<<<1073,1072,1085,1072,1085>>, <<1073,1072,1085,1072,1085,1099>>>>>>  \* банан: банан, бананы
   , <<<<1072,1087,1077,1083,1100,1089,1080,1085>>, <<<<1072,1087,1077,1083,1100,1089,1080,1085>>, <<1072,1087,1077,1083,1100,1089,1080,1085,1099>>, <<1072,1087,1077,1083,1100,1089,1080,1085,1086,1074,1099,1081>>>>>>  \* апельсин: апельсин, апельсины, апельсиновый
   , <<<<1083,1080,1084,1086,1085>>, <<<<1083,1080,1084,1086,1085>>, <<1083,1080,1084,1086,1085,1099>>>>>>  \* лимон: лимон, лимоны
   , <<<<1087,1086,1084,1080,1076,1086,1088>>, <<<<1087,1086,1084,1080,1076,1086,1088>>, <<1087,1086,1084,1080,1076,1086,1088,1099>>, <<1090,1086,1084,1072,1090>>, <<1090,1086,1084,1072,1090,1099>>>>>>  \* помидор: помидор, помидоры, томат, томаты
   , <<<<1086,1075,1091,1088,1077,1094>>, <<<<1086,1075,1091,1088,1077,1094>>, <<1086,1075,1091,1088,1094,1099>>>>>>  \* огурец: огурец, огурцы
   , <<<<1082,1072,1088,1090,1086,1092,1077,1083,1100>>, <<<<1082,1072,1088,1090,1086,1092,1077,1083,1100>>, <<1082,1072,1088,1090,1086,1096,1082,1072>>>>>>  \* картофель: картофель, картошка
   , <<<<1084,1086,1088,1082,1086,1074,1100>>, <<<<1084,1086,1088,1082,1086,1074,1100>>, <<1084,1086,1088,1082,1086,1074,1082,1072>>>>>>  \* морковь: морковь, морковка
   , <<<<1083,1091,1082>>, <<<<1083,1091,1082>>, <<1083,1091,1082,1086,1074,1099,1081>>>>>>  \* лук: лук, луковый
   , <<<<1082,1072,1087,1091,1089,1090,1072>>, <<<<1082,1072,1087,1091,1089,1090,1072>>>>>>  \* капуста: капуста
   , <<<<1088,1080,1089>>, <<<<1088,1080,1089>>, <<1088,1080,1089,1086,1074,1099,1081>>, <<1088,1080,1089,1086,1074,1072,1103>>>>>>  \* рис: рис, рисовый, рисовая
   , <<<<1075,1088,1077,1095,1082,1072>>, <<<<1075,1088,1077,1095,1082,1072>>, <<1075,1088,1077,1095,1085,1077,1074,1099,1081>>, <<1075,1088,1077,1095,1085,1077,1074,1072,1103>>, <<1075,1088,1077,1095,1072>>>>>>  \* гречка: гречка, гречневый, гречневая, греча
   , <<<<1084,1072,1082,1072,1088,1086,1085,1099>>, <<<<1084,1072,1082,1072,1088,1086,1085,1099>>, <<1087,1072,1089,1090,1072>>, <<1089,1087,1072,1075,1077,1090,1090,1080>>, <<1087,1077,1085,1085,1077>>, <<1092,1091,1079,1080,1083,1083,1080>>>>>>  \* макароны: макароны, паста, спагетти, пенне, фузилли
   , <<<<1082,1091,1088,1072,1075,1072>>, <<<<1082,1091,1088,1072,1075,1072>>>>>>  \* курага: курага
   , <<<<1080,1079,1102,1084>>, <<<<1080,1079,1102,1084>>>>>>  \* изюм: изюм
   , <<<<1095,1077,1088,1085,1086,1089,1083,1080,1074>>, <<<<1095,1077,1088,1085,1086,1089,1083,1080,1074>>>>>>  \* чернослив: чернослив
   , <<<<1086,1088,1077,1093,1080>>, <<<<1086,1088,1077,1093,1080>>, <<1086,1088,1077,1093>>, <<1084,1080,1085,1076,1072,1083,1100>>, <<1092,1091,1085,1076,1091,1082>>, <<1075,1088,1077,1094,1082,1080,1081>>, <<1082,1077,1096,1100,1102>>>>>>  \* орехи: орехи, орех, миндаль, фундук, грецкий, кешью
  >>

\* The elements of the set literal RUSSIAN_BRANDS, as written.
RUSSIAN_BRANDS_LITERAL ==
  << <<1087,1088,1086,1089,1090,1086,1082,1074,1072,1096,1080,1085,1086>>  \* простоквашино
   , <<1076,1086,1084,1080,1082,32,1074,32,1076,1077,1088,1077,1074,1085,1077>>  \* домик в деревне
   , <<1074,1082,1091,1089,1085,1086,1090,1077,1077,1074,1086>>  \* вкуснотеево
   , <<1089,1072,1074,1091,1096,1082,1080,1085>>  \* савушкин
   , <<1073,1088,1077,1089,1090,45,1083,1080,1090,1086,1074,1089,1082>>  \* брест-литовск
   , <<1095,1077,1088,1082,1080,1079,1086,1074,1086>>  \* черкизово
   , <<1084,1080,1088,1072,1090,1086,1088,1075>>  \* мираторг
   , <<1086,1089,1090,1072,1085,1082,1080,1085,1086>>  \* останкино
   , <<1074,1077,1083,1082,1086,1084>>  \* велком
   , <<1087,1072,1087,1072,32,1084,1086,1078,1077,1090>>  \* папа может
   , <<1076,1086,1073,1088,1099,1081>>  \* добрый
   , <<1083,1102,1073,1080,1084,1099,1081>>  \* любимый
   , <<1092,1088,1091,1082,1090,1086,1074,1099,1081,32,1089,1072,1076>>  \* фруктовый сад
   , <<1084,1086,1103,32,1089,1077,1084,1100,1103>>  \* моя семья
   , <<106,55>>  \* j7
   , <<114,105,99,104>>  \* rich
   , <<1084,1072,1082,1092,1072>>  \* макфа
   , <<1073,1072,1088,1080,1083,1083,1072>>  \* барилла
   , <<1097,1077,1073,1077,1082,1080,1085,1089,1082,1080,1077>>  \* щебекинские
   , <<108,97,121,39,115>>  \* lay's
   , <<108,97,121,115>>  \* lays
   , <<112,114,105,110,103,108,101,115>>  \* pringles
   , <<99,104,101,101,116,111,115>>  \* cheetos
   , <<1072,1083,1077,1085,1082,1072>>  \* аленка
   , <<1073,1072,1073,1072,1077,1074,1089,1082,1080,1081>>  \* бабаевский
   , <<1082,1088,1072,1089,1085,1099,1081,32,1086,1082,1090,1103,1073,1088,1100>>  \* красный октябрь
   , <<1082,1086,1088,1082,1091,1085,1086,1074>>  \* коркунов
   , <<109,101,114,99,105>>  \* merci
   , <<98,111,110,100,117,101,108,108,101>>  \* bonduelle
   , <<104,101,105,110,122>>  \* heinz
   , <<99,97,108,118,101>>  \* calve
   , <<109,105,120,98,97,114>>  \* mixbar
   , <<103,114,101,101,110,102,105,101,108,100>>  \* greenfield
   , <<97,104,109,97,100>>  \* ahmad
   , <<108,105,112,116,111,110>>  \* lipton
   , <<110,101,115,99,97,102,101>>  \* nescafe
   , <<106,97,99,111,98,115>>  \* jacobs
   , <<106,97,114,100,105,110>>  \* jardin
   , <<116,99,104,105,98,111>>  \* tchibo
  >>

RUSSIAN_BRANDS == {RUSSIAN_BRANDS_LITERAL[i] : i \in 1..Len(RUSSIAN_BRANDS_LITERAL)}

\* The elements of the set literal STOP_WORDS, as written.
STOP_WORDS_LITERAL ==
  << <<1084,1072,1075,1085,1080,1090>>  \* магнит
   , <<1087,1103,1090,1105,1088,1086,1095,1082,1072>>  \* пятёрочка
   , <<1087,1103,1090,1077,1088,1086,1095,1082,1072>>  \* пятерочка
   , <<1076,1083,1103>>  \* для
   , <<1073,1077,1079>>  \* без
   , <<1080,1083,1080>>  \* или
   , <<116,104,101>>  \* the
   , <<1096,1090,1091,1082>>  \* штук
   , <<1096,1090>>  \* шт
   , <<1091,1087,1072,1082,1086,1074,1082,1072>>  \* упаковка
   , <<1087,1072,1082,1077,1090>>  \* пакет
   , <<1073,1079,1084,1078>>  \* бзмж
   , <<112,114,101,109,105,117,109>>  \* premium
   , <<101,120,116,114,97>>  \* extra
   , <<110,101,119>>  \* new
   , <<103,108,111,98,97,108>>  \* global
   , <<118,105,108,108,97,103,101>>  \* village
   , <<1085,1072,1087,1080,1090,1086,1082>>  \* напиток
   , <<1087,1088,1086,1076,1091,1082,1090>>  \* продукт
   , <<1080,1079,1076,1077,1083,1080,1077>>  \* изделие
   , <<1090,1086,1074,1072,1088>>  \* товар
   , <<1085,1072,1073,1086,1088>>  \* набор
   , <<1072,1089,1089,1086,1088,1090,1080>>  \* ассорти
   , <<1084,1080,1082,1089>>  \* микс
   , <<1076,1086,1073,1072,1074,1083,1077,1085,1080,1077,1084>>  \* добавлением
   , <<1085,1072,1090,1091,1088,1072,1083,1100,1085,1099,1081>>  \* натуральный
   , <<1089,1074,1077,1078,1080,1081>>  \* свежий
   , <<1074,1082,1091,1089,1085,1099,1081>>  \* вкусный
   , <<1076,1086,1084,1072,1096,1085,1080,1081>>  \* домашний
   , <<1082,1083,1072,1089,1089,1080,1095,1077,1089,1082,1080,1081>>  \* классический
   , <<1084,1086,1083,1086,1095,1085,1099,1081>>  \* молочный
   , <<1084,1086,1083,1086,1095,1085,1072,1103>>  \* молочная
   , <<1084,1086,1083,1086,1095,1085,1086,1077>>  \* молочное
   , <<1076,1077,1090,1089,1082,1080,1081>>  \* детский
   , <<1076,1077,1090,1089,1082,1072,1103>>  \* детская
   , <<1074,1079,1088,1086,1089,1083,1099,1081>>  \* взрослый
   , <<1075,1072,1074,1072,1081,1089,1082,1080,1081>>  \* гавайский
   , <<1090,1088,1086,1087,1080,1095,1077,1089,1082,1080,1081>>  \* тропический
   , <<1083,1077,1090,1085,1103,1103>>  \* летняя
   , <<1083,1077,1090,1085,1080,1081>>  \* летний
   , <<1089,1072,1076,1086,1074,1072,1103>>  \* садовая
   , <<1089,1072,1076,1086,1074,1099,1081>>  \* садовый
   , <<1083,1077,1089,1085,1072,1103>>  \* лесная
   , <<1083,1077,1089,1085,1086,1081>>  \* лесной
   , <<1082,1088,1072,1089,1085,1086,1077>>  \* красное
   , <<1082,1088,1072,1089,1085,1099,1081>>  \* красный
   , <<1073,1077,1083,1086,1077>>  \* белое
   , <<1073,1077,1083,1099,1081>>  \* белый
   , <<1079,1077,1083,1077,1085,1099,1081>>  \* зеленый
   , <<1079,1077,1083,1105,1085,1099,1081>>  \* зелёный
   , <<1092,1072,1089,1086,1074,1072,1085,1085,1086,1077>>  \* фасованное
   , <<1092,1072,1089,1086,1074,1072,1085,1085,1099,1081>>  \* фасованный
   , <<1086,1090,1073,1086,1088,1085,1099,1077>>  \* отборные
   , <<1086,1090,1073,1086,1088,1085,1099,1081>>  \* отборный
   , <<1089,1086,1082,1086,1089,1086,1076,1077,1088,1078,1072,1097,1080,1081>>  \* сокосодержащий
   , <<1074,1086,1089,1089,1090,1072,1085,1086,1074,1083,1077,1085,1085,1099,1081>>  \* восстановленный
   , <<1087,1088,1086,1090,1077,1080,1085,1086,1074,1099,1081>>  \* протеиновый
   , <<1087,1088,1086,1090,1077,1080,1085,1086,1074,1086,1077>>  \* протеиновое
   , <<1074,1099,1089,1086,1082,1086,1073,1077,1083,1082,1086,1074,1099,1081>>  \* высокобелковый
   , <<1101,1085,1077,1088,1075,1077,1090,1080,1095,1077,1089,1082,1080,1081>>  \* энергетический
   , <<1075,1072,1079,1080,1088,1086,1074,1072,1085,1085,1099,1081>>  \* газированный
   , <<1085,1077,1075,1072,1079,1080,1088,1086,1074,1072,1085,1085,1099,1081>>  \* негазированный
   , <<1073,1077,1079,1072,1083,1082,1086,1075,1086,1083,1100,1085,1099,1081>>  \* безалкогольный
   , <<1089>>  \* с
   , <<1080>>  \* и
   , <<1074>>  \* в
   , <<1085,1072>>  \* на
   , <<1080,1079>>  \* из
   , <<1087,1086>>  \* по
   , <<1089,1086>>  \* со
   , <<1082>>  \* к
   , <<1091>>  \* у
   , <<1086>>  \* о
   , <<1086,1090>>  \* от
   , <<1091,1087>>  \* уп
   , <<1091,1087,1072,1082>>  \* упак
   , <<97,110,100>>  \* and
   , <<102,111,114>>  \* for
   , <<119,105,116,104>>  \* with
  >>

STOP_WORDS == {STOP_WORDS_LITERAL[i] : i \in 1..Len(STOP_WORDS_LITERAL)}

(***************************************************************************)
(* Text normalization                                                      *)
(***************************************************************************)
\* normalize_text folding "ё" before lower-casing.
NormalizeFoldFirst(text) ==
  IF text = <<>> THEN <<>>
  ELSE JoinSpace(Split(Lower(ReplaceYo(text))))

\* normalize_text; the absent text (None) and '' are both the empty sequence.
normalize_text(text) ==
  IF text = <<>> THEN <<>>
  ELSE JoinSpace(Split(ReplaceYo(Lower(text))))

\* The delimiter class [\s,.\-_/\\()] of tokenize_query.
IsDelimiter(c) == IsSpace(c) \/ c \in {44, 46, 45, 95, 47, 92, 40, 41}

TokenKept(t) == Len(t) >= 2 /\ t \notin STOP_WORDS

\* tokenize_query
tokenize_query(query) ==
  LET normalized == normalize_text(query)
      tokens == Runs(normalized, [i \in 1..Len(normalized) |-> ~IsDelimiter(normalized[i])])
  IN  Pick(tokens, [i \in 1..Len(tokens) |-> TokenKept(tokens[i])])

\* The endings list of stem_russian, in order.
endings ==
  << <<1072,1084,1080>>, <<1103,1084,1080>>, <<1072,1093>>, <<1103,1093>>  \* ами ями ах ях
   , <<1086,1074>>, <<1077,1074>>, <<1077,1081>>, <<1080,1081>>            \* ов ев ей ий
   , <<1099,1081>>, <<1072,1103>>, <<1103,1103>>, <<1086,1077>>            \* ый ая яя ое
   , <<1077,1077>>                                                         \* ее
   , <<1099>>, <<1080>>, <<1072>>, <<1103>>, <<1091>>, <<1102>>            \* ы и а я у ю
   , <<1077>>, <<1086>> >>                                                 \* е о

EndingApplies(word, ending) ==
  EndsWith(word, ending) /\ Len(word) - Len(ending) >= 3

\* stem_russian trying the endings from the end of the list.
StemShortestEndingFirst(word) ==
  IF Len(word) < 4 THEN word
  ELSE IF \E k \in 1..Len(endings) : EndingApplies(word, endings[k])
       THEN LET k == CHOOSE j \in 1..Len(endings) :
                        /\ EndingApplies(word, endings[j])
                        /\ \A h \in (j + 1)..Len(endings) : ~EndingApplies(word, endings[h])
            IN  SubSeq(word, 1, Len(word) - Len(endings[k]))
       ELSE word

\* stem_russian
stem_russian(word) ==
  IF Len(word) < 4 THEN word
  ELSE IF \E k \in 1..Len(endings) : EndingApplies(word, endings[k])
       THEN LET k == CHOOSE j \in 1..Len(endings) :
                        /\ EndingApplies(word, endings[j])
                        /\ \A h \in 1..(j - 1) : ~EndingApplies(word, endings[h])
            IN  SubSeq(word, 1, Len(word) - Len(endings[k]))
       ELSE word

(***************************************************************************)
(* Product attribute parsing                                               *)
(***************************************************************************)
NoneVal == <<>>
Some(v) == <<v>>
IsNone(o) == o = <<>>
Get(o) == o[1]

\* ProductAttributes(): every field None.
ProductAttributes ==
  [product_type |-> NoneVal, brand |-> NoneVal, volume_ml |-> NoneVal,
   weight_g |-> NoneVal, fat_percent |-> NoneVal, quantity |-> NoneVal]

\* Truth value of an Optional[str] (None and '' are false) and of an
\* Optional[float] (None and 0.0 are false).
TruthyStr(o) == o # <<>> /\ Get(o) # <<>>
TruthyNum(o) == o # <<>> /\ Get(o).num # 0

Rat(n, d) == [num |-> n, den |-> d]
RatLess(a, b) == a.num * b.den < b.num * a.den
RatEq(a, b) == a.num * b.den = b.num * a.den
RatTimes1000(a) == Rat(a.num * 1000, a.den)

RECURSIVE Pow10(_)
Pow10(k) == IF k = 0 THEN 1 ELSE 10 * Pow10(k - 1)

\* First position >= i of s that is past the end or not a digit, not
\* whitespace, not in [a-zA-Z']: the end of a greedy \d+, \s*, [a-zA-Z']+.
RECURSIVE DigitsEnd(_, _)
DigitsEnd(s, i) == IF i <= Len(s) /\ IsDigit(s[i]) THEN DigitsEnd(s, i + 1) ELSE i

RECURSIVE SpacesEnd(_, _)
SpacesEnd(s, i) == IF i <= Len(s) /\ IsSpace(s[i]) THEN SpacesEnd(s, i + 1) ELSE i

\* [a-zA-Z\']
IsLatinBrandChar(c) == IsUpperLatin(c) \/ IsLowerLatin(c) \/ c = 39

RECURSIVE LatinBrandCharsEnd(_, _)
LatinBrandCharsEnd(s, i) ==
  IF i <= Len(s) /\ IsLatinBrandChar(s[i]) THEN LatinBrandCharsEnd(s, i + 1) ELSE i

\* int() of the digits s[i..e-1].
RECURSIVE DigitsValue(_, _, _)
DigitsValue(s, i, e) ==
  IF e <= i THEN 0 ELSE 10 * DigitsValue(s, i, e - 1) + (s[e - 1] - 48)

\* \b at position p (between s[p-1] and s[p]).
WordBoundary(s, p) ==
  LET before == p > 1 /\ IsWordChar(s[p - 1])
      after == p <= Len(s) /\ IsWordChar(s[p])
  IN  before # after

\* (?!\w) at position p.
NotWordAhead(s, p) == ~(p <= Len(s) /\ IsWordChar(s[p]))

\* s has the literal lit at position p.
LitAt(s, p, lit) == p + Len(lit) - 1 <= Len(s) /\ SubSeq(s, p, p + Len(lit) - 1) = lit

\* (\d+(?:[.,]\d+)?)\s* tried at position i: the greedy match, the only one
\* that a unit marker can follow.  intEnd, fracEnd: ends of the digit runs;
\* next: the position after the optional whitespace.
NumberAt(s, i) ==
  LET intEnd == DigitsEnd(s, i)
      hasFrac == /\ intEnd + 1 <= Len(s)
                 /\ s[intEnd] \in {46, 44}
                 /\ IsDigit(s[intEnd + 1])
      fracEnd == IF hasFrac THEN DigitsEnd(s, intEnd + 1) ELSE intEnd
      fracLen == IF hasFrac THEN fracEnd - (intEnd + 1) ELSE 0
  IN  [value |-> Rat(DigitsValue(s, i, intEnd) * Pow10(fracLen)
                       + (IF hasFrac THEN DigitsValue(s, intEnd + 1, fracEnd) ELSE 0),
                     Pow10(fracLen)),
       next |-> SpacesEnd(s, fracEnd)]

\* (?:мл|ml)\b
UnitMl(s, p) ==
  (LitAt(s, p, <<1084, 1083>>) \/ LitAt(s, p, <<109, 108>>)) /\ WordBoundary(s, p + 2)
\* л(?:итр|\b)
UnitLitre(s, p) ==
  LitAt(s, p, <<1083>>) /\ (LitAt(s, p + 1, <<1080, 1090, 1088>>) \/ WordBoundary(s, p + 1))
\* (?:г|гр|грамм)(?!\w)
UnitGram(s, p) ==
  \/ LitAt(s, p, <<1075>>) /\ NotWordAhead(s, p + 1)
  \/ LitAt(s, p, <<1075, 1088>>) /\ NotWordAhead(s, p + 2)
  \/ LitAt(s, p, <<1075, 1088, 1072, 1084, 1084>>) /\ NotWordAhead(s, p + 5)
\* кг\b
UnitKg(s, p) == LitAt(s, p, <<1082, 1075>>) /\ WordBoundary(s, p + 2)
\* %
UnitPercent(s, p) == LitAt(s, p, <<37>>)

\* The unit pattern of the given kind matches at p.
UnitAt(unit, s, p) ==
  CASE unit = "ml" -> UnitMl(s, p)
    [] unit = "l" -> UnitLitre(s, p)
    [] unit = "g" -> UnitGram(s, p)
    [] unit = "kg" -> UnitKg(s, p)
    [] unit = "%" -> UnitPercent(s, p)

\* re.search(number \s* unit): float(group(1).replace(',', '.')) of the
\* leftmost match, or None.
SearchNumberUnit(s, unit) ==
  LET Hit(i) == IsDigit(s[i]) /\ UnitAt(unit, s, NumberAt(s, i).next)
  IN  IF \E i \in 1..Len(s) : Hit(i)
      THEN LET i == CHOOSE j \in 1..Len(s) : Hit(j) /\ \A h \in 1..(j - 1) : ~Hit(h)
           IN  Some(NumberAt(s, i).value)
      ELSE NoneVal

\* ParseVolume with litres first.
ParseVolumeLitresFirst(name_lower) ==
  LET ml == SearchNumberUnit(name_lower, "ml")
      l == SearchNumberUnit(name_lower, "l")
  IN  IF l # NoneVal THEN Some(RatTimes1000(Get(l)))
      ELSE IF ml # NoneVal THEN ml
      ELSE NoneVal

\* Volume: millilitres first, else litres times 1000.
ParseVolume(name_lower) ==
  LET ml == SearchNumberUnit(name_lower, "ml")
      l == SearchNumberUnit(name_lower, "l")
  IN  IF ml # NoneVal THEN ml
      ELSE IF l # NoneVal THEN Some(RatTimes1000(Get(l)))
      ELSE NoneVal

\* Weight: grams first, else kilograms times 1000.
ParseWeight(name_lower) ==
  LET g == SearchNumberUnit(name_lower, "g")
      kg == SearchNumberUnit(name_lower, "kg")
  IN  IF g # NoneVal THEN g
      ELSE IF kg # NoneVal THEN Some(RatTimes1000(Get(kg)))
      ELSE NoneVal

\* Fat percentage.
ParseFat(name_lower) == SearchNumberUnit(name_lower, "%")

\* Quantity: (\d+)\s*(?:шт|штук)|x(\d+), an int.
ParseQuantity(s) ==
  LET Pieces(i) == IsDigit(s[i])
                   /\ LitAt(s, SpacesEnd(s, DigitsEnd(s, i)), <<1096, 1090>>)
      Times(i) == s[i] = 120 /\ i + 1 <= Len(s) /\ IsDigit(s[i + 1])
      Hit(i) == Pieces(i) \/ Times(i)
  IN  IF \E i \in 1..Len(s) : Hit(i)
      THEN LET i == CHOOSE j \in 1..Len(s) : Hit(j) /\ \A h \in 1..(j - 1) : ~Hit(h)
           IN  IF Pieces(i) THEN Some(DigitsValue(s, i, DigitsEnd(s, i)))
               ELSE Some(DigitsValue(s, i + 1, DigitsEnd(s, i + 1)))
      ELSE NoneVal

\* Largest e in lo..hi with \b at e, or 0: where a greedy [a-zA-Z\']+ that
\* must end at \b stops after backtracking.
LastBoundary(s, lo, hi) ==
  IF \E e \in lo..hi : WordBoundary(s, e)
  THEN CHOOSE e \in lo..hi : WordBoundary(s, e) /\ \A f \in (e + 1)..hi : ~WordBoundary(s, f)
  ELSE 0

\* \b([A-Z][a-zA-Z\']+(?:\s+[A-Z][a-zA-Z\']+)?)\b tried at position i: the
\* position after the match, or 0 when there is none.
LatinBrandEnd(s, i) ==
  IF ~(IsUpperLatin(s[i]) /\ WordBoundary(s, i)) THEN 0
  ELSE LET r1 == LatinBrandCharsEnd(s, i + 1)
           w == SpacesEnd(s, r1)
           second == w > r1 /\ w <= Len(s) /\ IsUpperLatin(s[w])
           r2 == IF second THEN LatinBrandCharsEnd(s, w + 1) ELSE 0
           e2 == IF second THEN LastBoundary(s, w + 2, r2) ELSE 0
       IN  IF r1 < i + 2 THEN 0
           ELSE IF e2 # 0 THEN e2
           ELSE LastBoundary(s, i + 2, r1)

\* re.findall of the Latin brand pattern from position pos on.
RECURSIVE LatinBrandsFrom(_, _)
LatinBrandsFrom(s, pos) ==
  IF \E i \in pos..Len(s) : LatinBrandEnd(s, i) # 0
  THEN LET i == CHOOSE j \in pos..Len(s) :
                     LatinBrandEnd(s, j) # 0 /\ \A h \in pos..(j - 1) : LatinBrandEnd(s, h) = 0
           e == LatinBrandEnd(s, i)
       IN  <<SubSeq(s, i, e - 1)>> \o LatinBrandsFrom(s, e)
  ELSE <<>>

\* max(q, key=len): the first element of maximal length.
MaxByLen(q) ==
  q[CHOOSE i \in 1..Len(q) :
      /\ \A j \in 1..Len(q) : Len(q[j]) <= Len(q[i])
      /\ \A j \in 1..(i - 1) : Len(q[j]) < Len(q[i])]

\* KnownBrand looking for the brand in the normalized name.
KnownBrandInNormalized(name_lower, order) ==
  IF \E k \in 1..Len(order) : Contains(order[k], JoinSpace(Split(ReplaceYo(name_lower))))
  THEN LET k == CHOOSE j \in 1..Len(order) :
                     /\ Contains(order[j], JoinSpace(Split(ReplaceYo(name_lower))))
                     /\ \A h \in 1..(j - 1) :
                          ~Contains(order[h], JoinSpace(Split(ReplaceYo(name_lower))))
       IN  Some(Title(order[k]))
  ELSE NoneVal

\* for brand in RUSSIAN_BRANDS: if brand in name_lower: brand.title(), break.
\* order: the iteration order of the set in this process.
KnownBrand(name_lower, order) ==
  IF \E k \in 1..Len(order) : Contains(order[k], name_lower)
  THEN LET k == CHOOSE j \in 1..Len(order) :
                     /\ Contains(order[j], name_lower)
                     /\ \A h \in 1..(j - 1) : ~Contains(order[h], name_lower)
       IN  Some(Title(order[k]))
  ELSE NoneVal

\* Brand: the longest capitalized Latin word (pair) of the original name,
\* else a known brand.
ParseBrand(name, order) ==
  LET latin_brands == LatinBrandsFrom(name, 1)
  IN  IF latin_brands # <<>> THEN Some(MaxByLen(latin_brands))
      ELSE KnownBrand(Lower(name), order)

TypeMatches(entry, name_lower) ==
  \E k \in 1..Len(entry[2]) : Contains(entry[2][k], name_lower)

\* Product type: the first type of PRODUCT_TYPES one of whose keywords occurs.
ParseType(name_lower) ==
  IF \E t \in 1..Len(PRODUCT_TYPES) : TypeMatches(PRODUCT_TYPES[t], name_lower)
  THEN LET t == CHOOSE j \in 1..Len(PRODUCT_TYPES) :
                     /\ TypeMatches(PRODUCT_TYPES[j], name_lower)
                     /\ \A h \in 1..(j - 1) : ~TypeMatches(PRODUCT_TYPES[h], name_lower)
       IN  Some(PRODUCT_TYPES[t][1])
  ELSE NoneVal

\* parse_product_attributes(name) in a process that iterates the set
\* RUSSIAN_BRANDS in the given order.
ParseProductAttributes(name, order) ==
  LET name_lower == Lower(name)
  IN  [product_type |-> ParseType(name_lower),
       brand |-> ParseBrand(name, order),
       volume_ml |-> ParseVolume(name_lower),
       weight_g |-> ParseWeight(name_lower),
       fat_percent |-> ParseFat(name_lower),
       quantity |-> ParseQuantity(name_lower)]

(***************************************************************************)
(* Similarity scoring                                                      *)
(***************************************************************************)
\* [а-яёa-z]
IsNameLetter(c) == c \in 1072..1103 \/ c = 1105 \/ c \in 97..122
AtLeast3(w) == Len(w) >= 3

\* set(re.findall(r'[а-яёa-z]{3,}', name_norm)) - STOP_WORDS
NameWords(name_norm) ==
  LET found == Runs(name_norm, [i \in 1..Len(name_norm) |-> IsNameLetter(name_norm[i])])
  IN  {w \in SeqToSet(found) : AtLeast3(w)} \ STOP_WORDS

\* name_norm.split()[0] if name_norm else ""
FirstWord(name_norm) == IF name_norm # <<>> THEN Split(name_norm)[1] ELSE <<>>

\* FirstWordScore with the containment tested in one direction only.
FirstWordScoreOneWay(first_word1, first_word2) ==
  IF first_word1 # <<>> /\ first_word2 # <<>>
  THEN IF first_word1 = first_word2 THEN 35
       ELSE IF stem_russian(first_word1) = stem_russian(first_word2) THEN 30
       ELSE IF Contains(first_word1, first_word2) THEN 25
       ELSE 0
  ELSE 0

\* 1. First word: 35 equal, 30 equal stems, 25 one contains the other; 0 when
\* first_word_match stays False.
FirstWordScore(first_word1, first_word2) ==
  IF first_word1 # <<>> /\ first_word2 # <<>>
  THEN IF first_word1 = first_word2 THEN 35
       ELSE IF stem_russian(first_word1) = stem_russian(first_word2) THEN 30
       ELSE IF Contains(first_word1, first_word2) \/ Contains(first_word2, first_word1)
            THEN 25
       ELSE 0
  ELSE 0

\* The product_type fallback: 30 equal, 25 equal stems; 0 when no match.
ProductTypeScore(attrs1, attrs2) ==
  IF TruthyStr(attrs1.product_type) /\ TruthyStr(attrs2.product_type)
  THEN IF Get(attrs1.product_type) = Get(attrs2.product_type) THEN 30
       ELSE IF stem_russian(Get(attrs1.product_type)) = stem_russian(Get(attrs2.product_type))
            THEN 25
       ELSE 0
  ELSE 0

\* CommonWordsScore satisfied with a single common word.
CommonWordsScoreOneWord(words1, words2) ==
  IF Cardinality(words1 \cap words2) >= 1 THEN 20 ELSE 0

\* No type match: 20 for at least 2 common words, else 0 (return 0).
CommonWordsScore(words1, words2) ==
  IF Cardinality(words1 \cap words2) >= 2 THEN 20 ELSE 0

\* The score after the gate; 0 exactly when the function returns 0 there.
GateScore(attrs1, attrs2, name1_norm, name2_norm) ==
  LET first == FirstWordScore(FirstWord(name1_norm), FirstWord(name2_norm))
      type == ProductTypeScore(attrs1, attrs2)
  IN  IF first # 0 THEN first
      ELSE IF type # 0 THEN type
      ELSE CommonWordsScore(NameWords(name1_norm), NameWords(name2_norm))

\* BrandScore with the bonuses of equal and of different brands exchanged.
BrandScoreExchanged(attrs1, attrs2) ==
  IF TruthyStr(attrs1.brand) /\ TruthyStr(attrs2.brand)
  THEN IF Lower(Get(attrs1.brand)) = Lower(Get(attrs2.brand)) THEN 5 ELSE 35
  ELSE IF TruthyStr(attrs1.brand) \/ TruthyStr(attrs2.brand) THEN 3
  ELSE 10

\* BrandScore that gives the full bonus whenever both brands are present.
BrandScoreAnyBrand(attrs1, attrs2) ==
  IF TruthyStr(attrs1.brand) /\ TruthyStr(attrs2.brand) THEN 35
  ELSE IF TruthyStr(attrs1.brand) \/ TruthyStr(attrs2.brand) THEN 3
  ELSE 10

\* 2. Brand
BrandScore(attrs1, attrs2) ==
  IF TruthyStr(attrs1.brand) /\ TruthyStr(attrs2.brand)
  THEN IF Lower(Get(attrs1.brand)) = Lower(Get(attrs2.brand)) THEN 35 ELSE 5
  ELSE IF TruthyStr(attrs1.brand) \/ TruthyStr(attrs2.brand) THEN 3
  ELSE 10

\* min(a, b) / max(a, b) > t / 100, for positive or negative a, b # 0.
RatioAbove(a, b, t) ==
  LET lo == IF RatLess(b, a) THEN b ELSE a
      hi == IF RatLess(b, a) THEN a ELSE b
  IN  lo.num * hi.den * 100 > t * hi.num * lo.den

RatioScore(a, b) ==
  IF RatioAbove(a, b, 95) THEN 12
  ELSE IF RatioAbove(a, b, 80) THEN 8
  ELSE IF RatioAbove(a, b, 50) THEN 4
  ELSE 0

\* 3. Volume, else weight
SizeScore(attrs1, attrs2) ==
  IF TruthyNum(attrs1.volume_ml) /\ TruthyNum(attrs2.volume_ml)
  THEN RatioScore(Get(attrs1.volume_ml), Get(attrs2.volume_ml))
  ELSE IF TruthyNum(attrs1.weight_g) /\ TruthyNum(attrs2.weight_g)
       THEN RatioScore(Get(attrs1.weight_g), Get(attrs2.weight_g))
  ELSE 0

\* abs(a - b) < t / 10
AbsDiffBelow(a, b, t) ==
  LET d == a.num * b.den - b.num * a.den
  IN  10 * (IF d < 0 THEN -d ELSE d) < t * a.den * b.den

\* FatScore without the bonus for a difference from 0.5 up to 1.5.
FatScoreCloseOnly(attrs1, attrs2) ==
  IF TruthyNum(attrs1.fat_percent) /\ TruthyNum(attrs2.fat_percent)
  THEN IF AbsDiffBelow(Get(attrs1.fat_percent), Get(attrs2.fat_percent), 5) THEN 8 ELSE 0
  ELSE 0

\* 4. Fat percentage
FatScore(attrs1, attrs2) ==
  IF TruthyNum(attrs1.fat_percent) /\ TruthyNum(attrs2.fat_percent)
  THEN IF AbsDiffBelow(Get(attrs1.fat_percent), Get(attrs2.fat_percent), 5) THEN 8
       ELSE IF AbsDiffBelow(Get(attrs1.fat_percent), Get(attrs2.fat_percent), 15) THEN 4
       ELSE 0
  ELSE 0

\* 5. Word intersection: int(jaccard * 15)
WordScore(words1, words2) ==
  IF words1 # {} /\ words2 # {}
  THEN (15 * Cardinality(words1 \cap words2)) \div Cardinality(words1 \cup words2)
  ELSE 0

\* The sum of the five rules once the gate has passed.
SumScore(attrs1, attrs2, name1_norm, name2_norm) ==
  GateScore(attrs1, attrs2, name1_norm, name2_norm)
  + BrandScore(attrs1, attrs2)
  + SizeScore(attrs1, attrs2)
  + FatScore(attrs1, attrs2)
  + WordScore(NameWords(name1_norm), NameWords(name2_norm))

\* MinScore without the cap.
MinScoreUncapped(score) == score

\* min(score, 100)
MinScore(score) == IF score < 100 THEN score ELSE 100

\* calculate_similarity_score going on to the other rules after a failed gate.
ScoreWithoutGate(attrs1, attrs2, name1, name2) ==
  MinScore(SumScore(attrs1, attrs2, normalize_text(name1), normalize_text(name2)))

\* calculate_similarity_score
calculate_similarity_score(attrs1, attrs2, name1, name2) ==
  LET name1_norm == normalize_text(name1)
      name2_norm == normalize_text(name2)
  IN  IF GateScore(attrs1, attrs2, name1_norm, name2_norm) = 0 THEN 0
      ELSE MinScore(SumScore(attrs1, attrs2, name1_norm, name2_norm))

(***************************************************************************)
(* Words of the product names of the model (W_), product_type values (T_), *)
(* known brands (B_), search queries (Q_), category names (K_), quantity   *)
(* parts of names (P_), Telegram link codes (C_), chat ids (I_) and whole  *)
(* product names (N_)                                                      *)
(***************************************************************************)
W_Moloko == <<1052,1086,1083,1086,1082,1086>>  \* "Молоко"
W_Moloka == <<1052,1086,1083,1086,1082,1072>>  \* "Молока"
W_Molokosoderzhashchiy == <<1052,1086,1083,1086,1082,1086,1089,1086,1076,1077,1088,1078,1072,1097,1080,1081>>  \* "Молокосодержащий"
W_Syr == <<1057,1099,1088>>  \* "Сыр"
W_Sok == <<1057,1086,1082>>  \* "Сок"
W_Kolbasa == <<1050,1086,1083,1073,1072,1089,1072>>  \* "Колбаса"
W_Doktorskaya == <<1044,1086,1082,1090,1086,1088,1089,1082,1072,1103>>  \* "Докторская"
W_Prostokvashino == <<1055,1088,1086,1089,1090,1086,1082,1074,1072,1096,1080,1085,1086>>  \* "Простоквашино"
W_DomikVDerevne == <<1044,1086,1084,1080,1082,32,1074,32,1076,1077,1088,1077,1074,1085,1077>>  \* "Домик в деревне"
W_Otbornoe == <<1086,1090,1073,1086,1088,1085,1086,1077>>  \* "отборное"
W_Rich == <<82,105,99,104>>  \* "Rich"
W_RICH == <<82,73,67,72>>  \* "RICH"
W_DobryiRich == <<1076,1086,1073,1088,1099,1081,32,114,105,99,104>>  \* "добрый rich"
W_Fat32 == <<51,46,50,37>>  \* "3.2%"
W_Ml930 == <<57,51,48,1084,1083>>  \* "930мл"
W_L1 == <<49,1083>>  \* "1л"
W_G300 == <<51,48,48,1075>>  \* "300г"
W_G400 == <<52,48,48,1075>>  \* "400г"
W_Blank == <<32>>  \* " "
T_Moloko == <<1084,1086,1083,1086,1082,1086>>  \* "молоко"
T_Molochnyi == <<1084,1086,1083,1086,1095,1085,1099,1081>>  \* "молочный"
T_Yabloki == <<1103,1073,1083,1086,1082,1080>>  \* "яблоки"
T_Moloka == <<1084,1086,1083,1086,1082,1072>>  \* "молока"
T_Syr == <<1089,1099,1088>>  \* "сыр"
B_Dobryi == <<1076,1086,1073,1088,1099,1081>>  \* "добрый"
B_Rich == <<114,105,99,104>>  \* "rich"
Q_MOLOKO == <<1052,1054,1051,1054,1050,1054>>  \* "МОЛОКО"
Q_MolokoProstokvashino == <<1084,1086,1083,1086,1082,1086,32,1087,1088,1086,1089,1090,1086,1082,1074,1072,1096,1080,1085,1086>>  \* "молоко простоквашино"
Q_ProstokvashinoMoloko == <<1055,1088,1086,1089,1090,1086,1082,1074,1072,1096,1080,1085,1086,32,32,1052,1086,1083,1086,1082,1086>>  \* "Простоквашино  Молоко"
Q_MolokoSyr == <<1084,1086,1083,1086,1082,1086,44,1089,1099,1088>>  \* "молоко,сыр"
Q_Ot == <<1086,1090>>  \* "от"
Q_OT == <<1054,1058>>  \* "ОТ"
Q_M == <<1084>>  \* "м"
Q_Spaces == <<32,32>>  \* "  "
Q_Hleb == <<1093,1083,1077,1073>>  \* "хлеб"
Q_Molochnye == <<1084,1086,1083,1086,1095,1085,1099,1077>>  \* "молочные"
Q_OO == <<1086,32,1086>>  \* "о о"
K_Dairy == <<1052,1086,1083,1086,1095,1085,1099,1077,32,1087,1088,1086,1076,1091,1082,1090,1099>>  \* "Молочные продукты"
K_Cheese == <<1057,1099,1088,1099>>  \* "Сыры"
W_MolokoOtbornoe == <<1084,1086,1083,1086,1082,1086,32,1086,1090,1073,1086,1088,1085,1086,1077>>  \* "молоко отборное"
P_Ml930 == <<57,51,48,1084,1083>>  \* "930мл"
P_ML500 == <<53,48,48,32,1052,1051>>  \* "500 МЛ"
P_Ml200Latin == <<50,48,48,109,108>>  \* "200ml"
P_Ml0 == <<48,1084,1083>>  \* "0мл"
P_L1 == <<49,1083>>  \* "1л"
P_L15 == <<49,46,53,32,1083>>  \* "1.5 л"
P_L05 == <<48,44,53,1083>>  \* "0,5л"
P_Litra2 == <<50,32,1083,1080,1090,1088,1072>>  \* "2 литра"
P_G300 == <<51,48,48,1075>>  \* "300г"
P_Gr400 == <<52,48,48,32,1075,1088>>  \* "400 гр"
P_Kg1 == <<49,1082,1075>>  \* "1кг"
P_Kg12 == <<49,44,50,1082,1075>>  \* "1,2кг"
P_Fat32 == <<51,46,50,37>>  \* "3.2%"
C_AB12 == <<65,66,49,50>>  \* "AB12"
C_ab12 == <<97,98,49,50>>  \* "ab12"
C_AB12Padded == <<32,65,66,49,50,32>>  \* " AB12 "
C_CD34 == <<67,68,51,52>>  \* "CD34"
C_EF56 == <<69,70,53,54>>  \* "EF56"
C_ZZ99 == <<90,90,57,57>>  \* "ZZ99"
I_111 == <<49,49,49>>  \* "111"
I_222 == <<50,50,50>>  \* "222"
N_ShokoladAlyonka == <<1064,1086,1082,1086,1083,1072,1076,32,1040,1083,1105,1085,1082,1072>>  \* "Шоколад Алёнка"
N_ShokoladAlenka == <<1064,1086,1082,1086,1083,1072,1076,32,1040,1083,1077,1085,1082,1072,32,57,48,1075>>  \* "Шоколад Аленка 90г"
N_MolokoDomikWide == <<1052,1086,1083,1086,1082,1086,32,1044,1086,1084,1080,1082,32,32,1074,32,1076,1077,1088,1077,1074,1085,1077>>  \* "Молоко Домик  в деревне"
N_MolokoDOMIK == <<1052,1086,1083,1086,1082,1086,32,1044,1054,1052,1048,1050,32,1042,32,1044,1045,1056,1045,1042,1053,1045>>  \* "Молоко ДОМИК В ДЕРЕВНЕ"
N_ChipsyLays == <<1095,1080,1087,1089,1099,32,108,97,121,39,115>>  \* "чипсы lay's"
N_Hleb == <<1061,1083,1077,1073>>  \* "Хлеб"
N_SokJ7 == <<1057,1086,1082,32,74,55,32,49,1083>>  \* "Сок J7 1л"

(***************************************************************************)
(* The model's universe of names, brand iteration orders and products      *)
(***************************************************************************)
\* ' '.join of the non-empty parts.
NameOf(parts) == JoinSpace(Pick(parts, [i \in 1..Len(parts) |-> parts[i] # <<>>]))

\* Names scored against each other with parsed attributes: head, brand and
\* volume parts in every combination, and four other names.
ParsedNames ==
  {NameOf(<<h, b, v>>) :
     h \in {W_Moloko, W_Sok},
     b \in {<<>>, W_Prostokvashino, W_Rich, W_RICH},
     v \in {<<>>, W_Ml930, W_L1}}
  \cup {W_Blank, NameOf(<<W_Sok, W_DobryiRich, W_L1>>),
        NameOf(<<W_Moloko, W_Prostokvashino, W_Fat32, W_Ml930>>),
        NameOf(<<W_Moloko, W_DomikVDerevne, W_Fat32, W_Ml930>>)}

\* Names of the products of the catalog.
SeedNames ==
  { NameOf(<<W_Moloko, W_Prostokvashino, W_Fat32, W_Ml930>>)
  , NameOf(<<W_Moloko, W_DomikVDerevne, W_Fat32, W_Ml930>>)
  , NameOf(<<W_Moloko, W_Ml930>>)
  , NameOf(<<W_Syr, W_Prostokvashino, W_G300>>)
  , NameOf(<<W_Kolbasa, W_Doktorskaya, W_G400>>) }

\* The set RUSSIAN_BRANDS is iterated in an order that the string hashing of
\* the process fixes: the literal's order with one brand moved to the front.
BrandFirst(b) ==
  <<b>> \o Pick(RUSSIAN_BRANDS_LITERAL,
               [i \in 1..Len(RUSSIAN_BRANDS_LITERAL) |-> RUSSIAN_BRANDS_LITERAL[i] # b])

\* Orders that differ on the brands occurring together in a name of the model
\* ("добрый", "rich").
BrandOrders == {BrandFirst(B_Dobryi), BrandFirst(B_Rich)}

(***************************************************************************)
(* State                                                                   *)
(***************************************************************************)
VARIABLES
  brand_order,    \* iteration order of RUSSIAN_BRANDS in the running process
  products,       \* the rows of the Product table, in the order a query yields them
  favorites,      \* the rows of the Favorite table, oldest first
  profiles,       \* UserProfile.telegram_chat_id of every user
  link_codes,     \* the rows of the TelegramLinkCode table
  now,            \* timezone.now(), in minutes
  price_history,  \* the rows of the PriceHistory table, oldest first
  alerts,         \* the rows of the PriceAlert table
  sent,           \* the calls of send_notification of the last pass, in order
  op,             \* the call made last: its name and arguments
  ret             \* what that call returned

\* The tables of the accounts and of the favourites, and the clock.
user_data == <<favorites, profiles, link_codes, now>>

\* The price history, the price alerts and the notifications.
price_data == <<price_history, alerts, sent>>

vars ==
  <<brand_order, products, favorites, profiles, link_codes, now,
    price_history, alerts, sent, op, ret>>

\* parse_product_attributes(name) in the running process.
parse_product_attributes(name) == ParseProductAttributes(name, brand_order)

(***************************************************************************)
(* Price per unit                                                          *)
(***************************************************************************)
UnitLitreSymbol == <<1083>>      \* 'л'
UnitKgSymbol == <<1082, 1075>>   \* 'кг'

\* PricePerUnit with the weight before the volume.
PricePerUnitWeightFirst(price, attrs) ==
  IF price = 0 THEN NoneVal
  ELSE IF TruthyNum(attrs.weight_g) /\ Get(attrs.weight_g).num > 0
       THEN Some([value |-> Rat(price * 10 * Get(attrs.weight_g).den,
                                Get(attrs.weight_g).num),
                  unit |-> UnitKgSymbol])
  ELSE IF TruthyNum(attrs.volume_ml) /\ Get(attrs.volume_ml).num > 0
       THEN Some([value |-> Rat(price * 10 * Get(attrs.volume_ml).den,
                                Get(attrs.volume_ml).num),
                  unit |-> UnitLitreSymbol])
  ELSE NoneVal

\* The result for a price in kopecks and the parsed attributes: value in
\* roubles per litre or kilogram; 'display' is value formatted with two
\* decimals.
PricePerUnit(price, attrs) ==
  IF price = 0 THEN NoneVal
  ELSE IF TruthyNum(attrs.volume_ml) /\ Get(attrs.volume_ml).num > 0
       THEN Some([value |-> Rat(price * 10 * Get(attrs.volume_ml).den,
                                Get(attrs.volume_ml).num),
                  unit |-> UnitLitreSymbol])
  ELSE IF TruthyNum(attrs.weight_g) /\ Get(attrs.weight_g).num > 0
       THEN Some([value |-> Rat(price * 10 * Get(attrs.weight_g).den,
                                Get(attrs.weight_g).num),
                  unit |-> UnitKgSymbol])
  ELSE NoneVal

\* calculate_price_per_unit(product)
calculate_price_per_unit(product) ==
  PricePerUnit(product.current_price, parse_product_attributes(product.name))

(***************************************************************************)
(* Similar products                                                        *)
(***************************************************************************)
\* Product.objects.filter(store_id=store_id)
ProductsOfStore(store_id) ==
  Pick(products, [i \in 1..Len(products) |-> products[i].store_id = store_id])

\* The search terms built from the source name and its attributes.
SearchTerms(product_name, source_attrs) ==
  LET source_words == SeqToSet(tokenize_query(product_name))
      words == {w \in source_words : Len(w) >= 3}
      stems == {s \in {stem_russian(w) : w \in words} : Len(s) >= 3}
      type_lower == Lower(Get(source_attrs.product_type))
      product_type == IF TruthyStr(source_attrs.product_type)
                      THEN {type_lower} \cup {s \in {stem_russian(type_lower)} : Len(s) >= 3}
                      ELSE {}
      brand == IF TruthyStr(source_attrs.brand)
               THEN {Lower(Get(source_attrs.brand))} ELSE {}
      search_terms == words \cup stems \cup product_type \cup brand
      first_word == FirstWord(normalize_text(product_name))
  IN  IF search_terms # {} THEN search_terms
      ELSE IF Len(first_word) >= 3 THEN {first_word}
      ELSE {}

\* Excluded that skips no product.
ExcludedNever(product, seen_ids) == FALSE

\* if product.product_id in seen_ids: continue
Excluded(product, seen_ids) == product.product_id \in seen_ids

\* The candidates loop: rows whose id is not in seen_ids and whose
\* normalized name contains a search term, in row order.
RECURSIVE Candidates(_, _, _)
Candidates(all_products, seen_ids, search_terms) ==
  IF all_products = <<>> THEN <<>>
  ELSE LET product == Head(all_products)
           match_found == \E term \in search_terms :
                             Contains(term, normalize_text(product.name))
       IN  IF Excluded(product, seen_ids)
           THEN Candidates(Tail(all_products), seen_ids, search_terms)
           ELSE IF match_found
                THEN <<product>> \o Candidates(Tail(all_products),
                                               seen_ids \cup {product.product_id},
                                               search_terms)
           ELSE Candidates(Tail(all_products), seen_ids, search_terms)

\* calculate_similarity_score(source_attrs, cand_attrs, product_name,
\* candidate.name) with cand_attrs = parse_product_attributes(candidate.name).
CandidateScore(source_attrs, product_name, candidate) ==
  calculate_similarity_score(source_attrs, parse_product_attributes(candidate.name),
                             product_name, candidate.name)

\* AboveThreshold without a floor.
AboveThresholdNoFloor(score) == score >= 0

\* if score > 20
AboveThreshold(score) == score > 20

\* PriceDiff with the operands exchanged.
PriceDiffReversed(cand_price, current_price) ==
  IF current_price # 0 THEN current_price - cand_price ELSE 0

\* price_diff = cand_price - current_price if current_price else 0
PriceDiff(cand_price, current_price) ==
  IF current_price # 0 THEN cand_price - current_price ELSE 0

\* Prices below 8 kopecks one kopeck apart whose difference, computed in
\* binary floating point, falls below -0.01: 0.03 - 0.04, 0.04 - 0.05 and
\* 0.06 - 0.07 do, 0.02 - 0.03 does not.
RoundsBelowKopeck == {<<3, 4>>, <<4, 5>>, <<6, 7>>}

\* price_diff < -0.01, prices in kopecks.
IsCheaper(cand_price, current_price) ==
  \/ PriceDiff(cand_price, current_price) < -1
  \/ /\ PriceDiff(cand_price, current_price) = -1
     /\ <<cand_price, current_price>> \in RoundsBelowKopeck

\* cand_price = float(candidate.current_price) if candidate.current_price else 0
CandPrice(candidate) == IF candidate.current_price # 0 THEN candidate.current_price ELSE 0

\* The record appended for a candidate; prices and price_diff in kopecks.
CandidateRecord(candidate, score, current_price) ==
  [product |-> candidate,
   similarity_score |-> score,
   price_diff |-> PriceDiff(CandPrice(candidate), current_price),
   is_cheaper |-> IsCheaper(CandPrice(candidate), current_price),
   is_exact_match |-> score >= 70,
   price_per_unit |-> calculate_price_per_unit(candidate)]

\* if score > 20: scored_candidates.append({...})
Scored(candidate, score, current_price) ==
  IF AboveThreshold(score) THEN <<CandidateRecord(candidate, score, current_price)>>
  ELSE <<>>

\* The scoring loop over the candidates.
RECURSIVE ScoredCandidates(_, _, _, _)
ScoredCandidates(candidates, source_attrs, product_name, current_price) ==
  IF candidates = <<>> THEN <<>>
  ELSE Scored(Head(candidates),
              CandidateScore(source_attrs, product_name, Head(candidates)),
              current_price)
       \o ScoredCandidates(Tail(candidates), source_attrs, product_name, current_price)

\* KeyLess with the price descending.
KeyLessPriceDescending(x, y) ==
  \/ x.similarity_score > y.similarity_score
  \/ /\ x.similarity_score = y.similarity_score
     /\ x.product.current_price > y.product.current_price

\* The sort key (-similarity_score, price) of x is less than that of y.
KeyLess(x, y) ==
  \/ x.similarity_score > y.similarity_score
  \/ /\ x.similarity_score = y.similarity_score
     /\ x.product.current_price < y.product.current_price

\* list.sort(key=...): stable, so x goes after every element whose key is
\* not greater.
RECURSIVE SortByKey(_)
SortByKey(q) ==
  IF q = <<>> THEN <<>>
  ELSE LET sorted == SortByKey(SubSeq(q, 1, Len(q) - 1))
           x == q[Len(q)]
           n == Cardinality({i \in 1..Len(sorted) : ~KeyLess(x, sorted[i])})
       IN  SubSeq(sorted, 1, n) \o <<x>> \o SubSeq(sorted, n + 1, Len(sorted))

\* q[:limit], limit >= 0
Truncate(q, limit) == SubSeq(q, 1, IF limit < Len(q) THEN limit ELSE Len(q))

\* The body of get_similar_products_v2 once source_attrs is parsed and
\* all_products is fetched: search terms, candidates, scores, sort, cut.
SimilarAmong(all_products, source_attrs, product_name, product_id, current_price, limit) ==
  Truncate(SortByKey(ScoredCandidates(Candidates(all_products, {product_id},
                                                 SearchTerms(product_name, source_attrs)),
                                      source_attrs, product_name, current_price)),
           limit)

\* get_similar_products_v2 looking only at the products of the category.
SimilarInCategory(store_id, product_name, product_id, current_price, category, limit) ==
  SimilarAmong(Pick(ProductsOfStore(store_id),
                    [i \in 1..Len(ProductsOfStore(store_id)) |->
                       TruthyStr(category) =>
                         ProductsOfStore(store_id)[i].category_name = Get(category)]),
               parse_product_attributes(product_name),
               product_name, product_id, current_price, limit)

\* get_similar_products_v2; category is not used by the function.
get_similar_products_v2(store_id, product_name, product_id, current_price, category, limit) ==
  SimilarAmong(ProductsOfStore(store_id), parse_product_attributes(product_name),
               product_name, product_id, current_price, limit)

\* target_store = 'magnit' if source_store == '5ka' else '5ka'
TargetStore(source_store) == IF source_store = "5ka" THEN "magnit" ELSE "5ka"

\* IsExactAnalog with the threshold at 50.
IsExactAnalogFrom50(record) == record.similarity_score >= 50

\* similar[0]['similarity_score'] >= 60
IsExactAnalog(record) == record.similarity_score >= 60

\* if similar and similar[0]['similarity_score'] >= 60: return similar[0]
BestMatch(similar) ==
  IF similar # <<>> /\ IsExactAnalog(similar[1]) THEN Some(similar[1]) ELSE NoneVal

\* find_exact_match_cross_store
find_exact_match_cross_store(product_name, product_id, source_store, current_price) ==
  BestMatch(get_similar_products_v2(TargetStore(source_store), product_name,
                                    product_id, current_price, NoneVal, 1))

\* get_cross_store_comparison
get_cross_store_comparison(product_name, product_id, source_store, current_price, limit) ==
  get_similar_products_v2(TargetStore(source_store), product_name, product_id,
                          current_price, NoneVal, limit)


(***************************************************************************)
(* smart_search                                                            *)
(***************************************************************************)
\* a < b for two str values: by code point, a proper prefix first.
StrLess(a, b) ==
  \E i \in 1..Len(b) :
    /\ \A j \in 1..(i - 1) : j <= Len(a) /\ a[j] = b[j]
    /\ \/ i = Len(a) + 1
       \/ i <= Len(a) /\ a[i] < b[i]

\* QueryNormalized without str.lower().
QueryNotLowered(query) == JoinSpace(Split(ReplaceYo(query)))

\* query_normalized = normalize_text(query)
QueryNormalized(query) == normalize_text(query)

\* SearchTokens without the fallback for a query of stop words.
SearchTokensNoFallback(query, query_normalized) == tokenize_query(query)

\* tokens: tokenize_query(query), or the words of 2+ characters of the
\* normalized query when every word is a stop word.
SearchTokens(query, query_normalized) ==
  IF tokenize_query(query) # <<>> THEN tokenize_query(query)
  ELSE Pick(Split(query_normalized),
            [i \in 1..Len(Split(query_normalized)) |-> Len(Split(query_normalized)[i]) >= 2])

\* Product.objects.filter(store_id=store_id), and
\* .filter(category_name=category) for a non-empty category.
RECURSIVE SearchedProducts(_, _, _)
SearchedProducts(rows, store_id, category) ==
  IF rows = <<>> THEN <<>>
  ELSE (IF /\ Head(rows).store_id = store_id
           /\ TruthyStr(category) => Head(rows).category_name = Get(category)
        THEN <<Head(rows)>> ELSE <<>>)
       \o SearchedProducts(Tail(rows), store_id, category)

\* PhraseScore without the bonus for a name starting with the query.
PhraseScoreNoStartBonus(query_normalized, name_normalized) ==
  IF Contains(query_normalized, name_normalized) THEN 100 ELSE 0

\* Exact phrase match, and the bonus if the name starts with the query.
PhraseScore(query_normalized, name_normalized) ==
  IF Contains(query_normalized, name_normalized)
  THEN 100 + (IF StartsWith(name_normalized, query_normalized) THEN 20 ELSE 0)
  ELSE 0

\* What one token adds: 30 in the name, else 20 for its stem of 3+
\* characters in the name.
TokenScore(token, name_normalized) ==
  IF Contains(token, name_normalized) THEN 30
  ELSE IF /\ Len(stem_russian(token)) >= 3
          /\ Contains(stem_russian(token), name_normalized)
       THEN 20
  ELSE 0

\* The token loop: the sum of the tokens' scores.
RECURSIVE TokensScore(_, _)
TokensScore(tokens, name_normalized) ==
  IF tokens = <<>> THEN 0
  ELSE TokenScore(Head(tokens), name_normalized) + TokensScore(Tail(tokens), name_normalized)

\* matched_tokens after the token loop.
RECURSIVE MatchedTokens(_, _)
MatchedTokens(tokens, name_normalized) ==
  IF tokens = <<>> THEN 0
  ELSE (IF TokenScore(Head(tokens), name_normalized) > 0 THEN 1 ELSE 0)
       + MatchedTokens(Tail(tokens), name_normalized)

\* Bonus for matching all tokens.
AllTokensScore(tokens, name_normalized) ==
  IF MatchedTokens(tokens, name_normalized) = Len(tokens) /\ Len(tokens) > 1 THEN 25 ELSE 0

\* Category match.
CategoryScore(query_normalized, category_name) ==
  IF category_name # <<>> /\ Contains(query_normalized, normalize_text(category_name))
  THEN 15 ELSE 0

\* score of one product at the end of the loop body.
RelevanceScore(query_normalized, tokens, product) ==
  PhraseScore(query_normalized, normalize_text(product.name))
  + TokensScore(tokens, normalize_text(product.name))
  + AllTokensScore(tokens, normalize_text(product.name))
  + CategoryScore(query_normalized, product.category_name)

\* Positive that keeps a score of 0.
PositiveOrZero(score) == score >= 0

\* if score > 0
Positive(score) == score > 0

\* The loop over the products: results, in row order.
RECURSIVE SearchResults(_, _, _)
SearchResults(rows, query_normalized, tokens) ==
  IF rows = <<>> THEN <<>>
  ELSE (IF Positive(RelevanceScore(query_normalized, tokens, Head(rows)))
        THEN << <<Head(rows), RelevanceScore(query_normalized, tokens, Head(rows))>> >>
        ELSE <<>>)
       \o SearchResults(Tail(rows), query_normalized, tokens)

\* ResultKeyLess with the names descending.
ResultKeyLessNameDescending(x, y) ==
  x[2] > y[2] \/ (x[2] = y[2] /\ StrLess(y[1].name, x[1].name))

\* The sort key (-score, product.name) of x is less than that of y.
ResultKeyLess(x, y) ==
  x[2] > y[2] \/ (x[2] = y[2] /\ StrLess(x[1].name, y[1].name))

\* results.sort(key=...): stable.
RECURSIVE SortResults(_)
SortResults(q) ==
  IF q = <<>> THEN <<>>
  ELSE LET sorted == SortResults(SubSeq(q, 1, Len(q) - 1))
           x == q[Len(q)]
           n == Cardinality({i \in 1..Len(sorted) : ~ResultKeyLess(x, sorted[i])})
       IN  SubSeq(sorted, 1, n) \o <<x>> \o SubSeq(sorted, n + 1, Len(sorted))

\* The part of smart_search after the query is normalized.
SearchNormalized(store_id, query, query_normalized, category, limit) ==
  IF SearchTokens(query, query_normalized) = <<>> THEN <<>>
  ELSE Truncate(SortResults(SearchResults(SearchedProducts(products, store_id, category),
                                          query_normalized,
                                          SearchTokens(query, query_normalized))),
                limit)

\* smart_search(store_id, query, category, limit); the absent query and ''
\* are both the empty sequence.
smart_search(store_id, query, category, limit) ==
  IF query = <<>> \/ Len(query) < 2 THEN <<>>
  ELSE SearchNormalized(store_id, query, QueryNormalized(query), category, limit)
(***************************************************************************)
(* Bounds and inputs                                                       *)
(***************************************************************************)
MaxProducts == 2   \* rows in the Product table
MaxPrice == 2      \* largest source price passed in, in kopecks
MaxLimit == 2      \* largest limit passed in

StoreIds == {"5ka", "magnit"}

Users == {"anna", "boris"}

\* No favourites, no linked Telegram, no link codes.
NoUserData ==
  /\ favorites = <<>>
  /\ profiles = [u \in Users |-> NoneVal]
  /\ link_codes = <<>>
  /\ now = 0

\* No price history, no price alerts, nothing sent.
NoPriceData ==
  /\ price_history = <<>>
  /\ alerts = <<>>
  /\ sent = <<>>

\* A row as the scraper creates it: min_price and max_price are the price.
Product(product_id, store_id, name, current_price) ==
  [product_id |-> product_id, store_id |-> store_id, name |-> name,
   category_name |-> <<>>, current_price |-> current_price,
   min_price |-> current_price, max_price |-> current_price]

\* The product filed under a category.
InCategory(category_name, product) ==
  [product EXCEPT !.category_name = category_name]

\* The rows the table is filled from; (product_id, store) is unique.
SeedProducts ==
  << Product("1", "magnit", NameOf(<<W_Moloko, W_Prostokvashino, W_Fat32, W_Ml930>>), 3)
   , InCategory(K_Dairy, Product("2", "magnit", NameOf(<<W_Moloko, W_DomikVDerevne, W_Fat32, W_Ml930>>), 2))
   , InCategory(K_Cheese, Product("3", "magnit", NameOf(<<W_Moloko, W_DomikVDerevne, W_Fat32, W_Ml930>>), 1))
   , Product("4", "magnit", NameOf(<<W_Syr, W_Prostokvashino, W_G300>>), 0)
   , Product("1", "5ka", NameOf(<<W_Moloko, W_Prostokvashino, W_Fat32, W_Ml930>>), 2)
   , Product("5", "5ka", NameOf(<<W_Moloko, W_Ml930>>), 2)
   >>

\* The rows of SeedProducts with index in S, in order.
RECURSIVE RowsFrom(_, _)
RowsFrom(S, i) ==
  IF i > Len(SeedProducts) THEN <<>>
  ELSE IF i \in S THEN <<SeedProducts[i]>> \o RowsFrom(S, i + 1)
  ELSE RowsFrom(S, i + 1)

Tables ==
  {RowsFrom(S, 1) : S \in {T \in SUBSET (1..Len(SeedProducts)) : Cardinality(T) <= MaxProducts}}

\* The products a detail page is opened for: (name, id) of the call.
Sources == {SeedProducts[1], SeedProducts[2]}

Categories == {NoneVal, Some(W_Moloko)}

\* Names passed to calculate_similarity_score with attribute records of the
\* caller's choice.
ScoreNames ==
  { NameOf(<<W_Moloko, W_Prostokvashino, W_Otbornoe>>)
  , NameOf(<<W_Moloka, W_Rich>>)
  , NameOf(<<W_Molokosoderzhashchiy, W_Prostokvashino>>)
  , NameOf(<<W_Syr, W_Prostokvashino, W_Otbornoe>>)
  , NameOf(<<W_Sok, W_Otbornoe>>)
  , <<>> }

Attrs(product_type, brand, volume_ml, weight_g, fat_percent) ==
  [product_type |-> product_type, brand |-> brand, volume_ml |-> volume_ml,
   weight_g |-> weight_g, fat_percent |-> fat_percent, quantity |-> NoneVal]

\* Attribute records: at most one field set, or all of them.
AttrPool ==
  {Attrs(t, NoneVal, NoneVal, NoneVal, NoneVal) : t \in {NoneVal, Some(T_Moloko), Some(T_Moloka), Some(T_Syr)}}
  \cup {Attrs(NoneVal, b, NoneVal, NoneVal, NoneVal) : b \in {Some(W_Rich), Some(W_RICH), Some(W_Prostokvashino)}}
  \cup {Attrs(NoneVal, NoneVal, v, NoneVal, NoneVal) : v \in {Some(Rat(0, 1)), Some(Rat(930, 1)), Some(Rat(1000, 1))}}
  \cup {Attrs(NoneVal, NoneVal, NoneVal, w, NoneVal) : w \in {Some(Rat(300, 1)), Some(Rat(400, 1))}}
  \cup {Attrs(NoneVal, NoneVal, NoneVal, NoneVal, f) : f \in {Some(Rat(0, 1)), Some(Rat(1, 1)), Some(Rat(32, 10)), Some(Rat(35, 10)), Some(Rat(25, 10))}}
  \cup {Attrs(Some(T_Moloko), Some(W_Rich), Some(Rat(930, 1)), Some(Rat(400, 1)), Some(Rat(32, 10))),
        Attrs(Some(T_Syr), Some(W_RICH), Some(Rat(930, 1)), Some(Rat(300, 1)), Some(Rat(35, 10)))}

(***************************************************************************)
(* Calls of calculate_similarity_score                                     *)
(***************************************************************************)
ScoreCall(attrs1, attrs2, name1, name2) ==
  /\ op.name = "none"
  /\ op' = [name |-> "calculate_similarity_score", attrs1 |-> attrs1,
            attrs2 |-> attrs2, name1 |-> name1, name2 |-> name2]
  /\ ret' = calculate_similarity_score(attrs1, attrs2, name1, name2)
  /\ UNCHANGED <<brand_order, products, user_data, price_data>>

\* A caller passes attribute records and names of its choice.
CalculateSimilarityScore ==
  \E attrs1 \in AttrPool, attrs2 \in AttrPool, name1 \in ScoreNames, name2 \in ScoreNames :
    ScoreCall(attrs1, attrs2, name1, name2)

\* A caller passes two names with the attributes parsed from them.
SimilarityOfParsedNames ==
  \E name1 \in ParsedNames, name2 \in ParsedNames :
    ScoreCall(parse_product_attributes(name1), parse_product_attributes(name2), name1, name2)

\* The caller takes the result; the next call starts from there.
Return ==
  /\ op.name # "none"
  /\ op' = [name |-> "none"]
  /\ ret' = NoneVal
  /\ UNCHANGED <<brand_order, products, user_data, price_data>>

InitScore ==
  /\ brand_order \in BrandOrders
  /\ products = <<>>
  /\ NoUserData
  /\ NoPriceData
  /\ op = [name |-> "none"]
  /\ ret = NoneVal

NextScore == CalculateSimilarityScore \/ SimilarityOfParsedNames \/ Return

SpecScore == InitScore /\ [][NextScore]_vars

(***************************************************************************)
(* Calls of the similar-products functions                                 *)
(***************************************************************************)
GetSimilarProductsV2 ==
  \E source \in Sources, store_id \in StoreIds, current_price \in 0..MaxPrice,
     category \in Categories, limit \in 0..MaxLimit :
    /\ op.name = "none"
    /\ op' = [name |-> "get_similar_products_v2", store_id |-> store_id,
              product_name |-> source.name, product_id |-> source.product_id,
              current_price |-> current_price, category |-> category, limit |-> limit]
    /\ ret' = get_similar_products_v2(store_id, source.name, source.product_id,
                                      current_price, category, limit)
    /\ UNCHANGED <<brand_order, products, user_data, price_data>>

FindExactMatchCrossStore ==
  \E source \in Sources, source_store \in StoreIds, current_price \in 0..MaxPrice :
    /\ op.name = "none"
    /\ op' = [name |-> "find_exact_match_cross_store", source_store |-> source_store,
              product_name |-> source.name, product_id |-> source.product_id,
              current_price |-> current_price]
    /\ ret' = find_exact_match_cross_store(source.name, source.product_id,
                                           source_store, current_price)
    /\ UNCHANGED <<brand_order, products, user_data, price_data>>

GetCrossStoreComparison ==
  \E source \in Sources, source_store \in StoreIds, current_price \in 0..MaxPrice,
     limit \in 0..MaxLimit :
    /\ op.name = "none"
    /\ op' = [name |-> "get_cross_store_comparison", source_store |-> source_store,
              product_name |-> source.name, product_id |-> source.product_id,
              current_price |-> current_price, limit |-> limit]
    /\ ret' = get_cross_store_comparison(source.name, source.product_id,
                                         source_store, current_price, limit)
    /\ UNCHANGED <<brand_order, products, user_data, price_data>>

InitSimilar ==
  /\ brand_order \in BrandOrders
  /\ products \in Tables
  /\ NoUserData
  /\ NoPriceData
  /\ op = [name |-> "none"]
  /\ ret = NoneVal

NextSimilar ==
  GetSimilarProductsV2 \/ FindExactMatchCrossStore \/ GetCrossStoreComparison \/ Return

SpecSimilar == InitSimilar /\ [][NextSimilar]_vars


(***************************************************************************)
(* Calls of smart_search                                                   *)
(***************************************************************************)
\* The rows the searched table is filled from.
SearchCatalog ==
  << InCategory(K_Dairy, Product("2", "magnit", W_MolokoOtbornoe, 2))
   , InCategory(K_Dairy, Product("1", "magnit", NameOf(<<W_Moloko, W_Prostokvashino, W_Fat32, W_Ml930>>), 3))
   , InCategory(K_Cheese, Product("4", "magnit", NameOf(<<W_Syr, W_Prostokvashino, W_G300>>), 0))
   , Product("6", "magnit", NameOf(<<W_Sok, W_Rich, W_L1>>), 1)
   , InCategory(K_Dairy, Product("5", "5ka", NameOf(<<W_Moloko, W_Ml930>>), 2))
   >>

\* The rows of SearchCatalog with index in S, in order.
RECURSIVE SearchRowsFrom(_, _)
SearchRowsFrom(S, i) ==
  IF i > Len(SearchCatalog) THEN <<>>
  ELSE IF i \in S THEN <<SearchCatalog[i]>> \o SearchRowsFrom(S, i + 1)
  ELSE SearchRowsFrom(S, i + 1)

SearchTables ==
  {SearchRowsFrom(S, 1) : S \in {T \in SUBSET (1..Len(SearchCatalog)) : Cardinality(T) <= MaxProducts}}

\* What is typed into the search box.
Queries ==
  { <<>>, Q_M, Q_Spaces, Q_Hleb, T_Moloko, W_Moloko, Q_MOLOKO, T_Moloka,
    Q_MolokoProstokvashino, Q_ProstokvashinoMoloko, Q_MolokoSyr, Q_Ot, Q_OT,
    Q_Molochnye, Q_OO }

SearchCategories == {NoneVal, Some(<<>>), Some(K_Dairy)}

\* smart_search writing the normalized name back to the rows it scans.
SmartSearchRenaming ==
  \E store_id \in StoreIds, query \in Queries, category \in SearchCategories,
     limit \in 1..MaxLimit :
    /\ op.name = "none"
    /\ op' = [name |-> "smart_search", store_id |-> store_id, query |-> query,
              category |-> category, limit |-> limit]
    /\ ret' = smart_search(store_id, query, category, limit)
    /\ products' = [i \in 1..Len(products) |->
                      IF products[i].store_id = store_id
                      THEN [products[i] EXCEPT !.name = normalize_text(products[i].name)]
                      ELSE products[i]]
    /\ UNCHANGED <<brand_order, user_data, price_data>>

SmartSearch ==
  \E store_id \in StoreIds, query \in Queries, category \in SearchCategories,
     limit \in 1..MaxLimit :
    /\ op.name = "none"
    /\ op' = [name |-> "smart_search", store_id |-> store_id, query |-> query,
              category |-> category, limit |-> limit]
    /\ ret' = smart_search(store_id, query, category, limit)
    /\ UNCHANGED <<brand_order, products, user_data, price_data>>

InitSearch ==
  /\ brand_order \in BrandOrders
  /\ products \in SearchTables
  /\ NoUserData
  /\ NoPriceData
  /\ op = [name |-> "none"]
  /\ ret = NoneVal

NextSearch == SmartSearch \/ Return

SpecSearch == InitSearch /\ [][NextSearch]_vars

(***************************************************************************)
(* Calls of normalize_text, stem_russian, parse_product_attributes and     *)
(* calculate_price_per_unit                                                *)
(***************************************************************************)
MaxLen == 3   \* longest text passed to normalize_text

\* "Ё", "ё", "е", "Щ", the space and the tab.
TextAlphabet == {1025, 1105, 1077, 1065, 32, 9}

Texts == UNION {[1..k -> TextAlphabet] : k \in 0..MaxLen}

MaxWord == 5   \* longest word passed to stem_russian

\* "а", "и", "м", "х", "я".
WordAlphabet == {1072, 1080, 1084, 1093, 1103}

\* The words passed to stem_russian, with those of test_stem_russian.
StemWords ==
  UNION {[1..k -> WordAlphabet] : k \in 0..MaxWord}
    \cup {T_Moloko, T_Molochnyi, T_Yabloki, Lower(W_Sok)}

\* A part of a product name that states a quantity: its text, its unit
\* ("ml", "l", "g", "kg", or "" for none) and the number written in it.
QuantityPart(text, unit, num, den) ==
  [text |-> text, unit |-> unit, value |-> Rat(num, den)]

QuantityParts ==
  { QuantityPart(<<>>, "", 0, 1), QuantityPart(P_Fat32, "", 32, 10)
  , QuantityPart(P_Ml930, "ml", 930, 1), QuantityPart(P_ML500, "ml", 500, 1)
  , QuantityPart(P_Ml200Latin, "ml", 200, 1), QuantityPart(P_Ml0, "ml", 0, 1)
  , QuantityPart(P_L1, "l", 1, 1), QuantityPart(P_L15, "l", 15, 10)
  , QuantityPart(P_L05, "l", 5, 10), QuantityPart(P_Litra2, "l", 2, 1)
  , QuantityPart(P_G300, "g", 300, 1), QuantityPart(P_Gr400, "g", 400, 1)
  , QuantityPart(P_Kg1, "kg", 1, 1), QuantityPart(P_Kg12, "kg", 12, 10) }

\* A name with two quantity parts after its head word.
QuantityName(head, part1, part2) == NameOf(<<head, part1.text, part2.text>>)

QuantityNames ==
  {QuantityName(head, part1, part2) :
     head \in {W_Moloko, W_Syr}, part1 \in QuantityParts, part2 \in QuantityParts}

NormalizeText ==
  \E text \in Texts :
    /\ op.name = "none"
    /\ op' = [name |-> "normalize_text", text |-> text]
    /\ ret' = normalize_text(text)
    /\ UNCHANGED <<brand_order, products, user_data, price_data>>

StemRussian ==
  \E word \in StemWords :
    /\ op.name = "none"
    /\ op' = [name |-> "stem_russian", word |-> word]
    /\ ret' = stem_russian(word)
    /\ UNCHANGED <<brand_order, products, user_data, price_data>>

\* Names with a known brand in several spellings, with two known brands, with
\* a Latin brand and without a brand.
BrandNames ==
  { N_ShokoladAlyonka, N_ShokoladAlenka, N_MolokoDomikWide, N_MolokoDOMIK
  , N_ChipsyLays, N_Hleb, N_SokJ7
  , NameOf(<<W_Sok, W_DobryiRich, W_L1>>), NameOf(<<W_Sok, W_Rich, W_L1>>) }

ParseAttributes ==
  \E product_name \in QuantityNames \cup BrandNames :
    /\ op.name = "none"
    /\ op' = [name |-> "parse_product_attributes", product_name |-> product_name]
    /\ ret' = parse_product_attributes(product_name)
    /\ UNCHANGED <<brand_order, products, user_data, price_data>>

CalculatePricePerUnit ==
  \E product_name \in QuantityNames, current_price \in 0..MaxPrice :
    /\ op.name = "none"
    /\ op' = [name |-> "calculate_price_per_unit",
              product |-> Product("1", "magnit", product_name, current_price)]
    /\ ret' = calculate_price_per_unit(Product("1", "magnit", product_name, current_price))
    /\ UNCHANGED <<brand_order, products, user_data, price_data>>

InitParse ==
  /\ brand_order \in BrandOrders
  /\ products = <<>>
  /\ NoUserData
  /\ NoPriceData
  /\ op = [name |-> "none"]
  /\ ret = NoneVal

NextParse == ParseAttributes \/ NormalizeText \/ StemRussian \/ CalculatePricePerUnit \/ Return

SpecParse == InitParse /\ [][NextParse]_vars

(***************************************************************************)
(* The core operations over one catalog                                    *)
(***************************************************************************)
\* product_detail passes a row of the catalog to calculate_price_per_unit.
PricePerUnitOfProduct ==
  \E i \in 1..Len(products) :
    /\ op.name = "none"
    /\ op' = [name |-> "calculate_price_per_unit", product |-> products[i]]
    /\ ret' = calculate_price_per_unit(products[i])
    /\ UNCHANGED <<brand_order, products, user_data, price_data>>

InitCore == InitSearch

NextCore ==
  \/ SmartSearch
  \/ GetSimilarProductsV2
  \/ FindExactMatchCrossStore
  \/ GetCrossStoreComparison
  \/ PricePerUnitOfProduct
  \/ Return

SpecCore == InitCore /\ [][NextCore]_vars

(***************************************************************************)
(* toggle_favorite                                                         *)
(***************************************************************************)
\* Product.objects.get(store_id=store_id, product_id=product_id): the row,
\* or none for Product.DoesNotExist; (product_id, store) is unique.
ProductGet(store_id, product_id) ==
  IF \E i \in 1..Len(products) :
       products[i].store_id = store_id /\ products[i].product_id = product_id
  THEN Some(products[CHOOSE i \in 1..Len(products) :
                       products[i].store_id = store_id /\ products[i].product_id = product_id])
  ELSE NoneVal

\* A row of the Favorite table: the user and the key of the product.
Favorite(user, product) ==
  [user |-> user, store_id |-> product.store_id, product_id |-> product.product_id]

\* The indices of the rows of the pair.
FavoritesOf(rows, user, product) ==
  {i \in 1..Len(rows) : rows[i] = Favorite(user, product)}

\* get_or_create that never finds the row.
GetOrCreateAlwaysCreating(rows, user, product) ==
  [rows |-> Append(rows, Favorite(user, product)), created |-> TRUE]

\* Favorite.objects.get_or_create(user=..., product=...): the table
\* afterwards and the flag created.
GetOrCreate(rows, user, product) ==
  IF FavoritesOf(rows, user, product) # {}
  THEN [rows |-> rows, created |-> FALSE]
  ELSE [rows |-> Append(rows, Favorite(user, product)), created |-> TRUE]

\* favorite.delete() for the row that get_or_create returned.
DeleteFavorite(rows, user, product) ==
  LET i == CHOOSE j \in FavoritesOf(rows, user, product) :
                  \A h \in FavoritesOf(rows, user, product) : j <= h
  IN  SubSeq(rows, 1, i - 1) \o SubSeq(rows, i + 1, Len(rows))

JsonResponse(status, is_favorite) == [status |-> status, is_favorite |-> is_favorite]

\* The try block of toggle_favorite once the product is found; got is the
\* result of get_or_create.  More than one row of the pair makes get() raise
\* MultipleObjectsReturned.
ToggleFound(user, product, got) ==
  IF Cardinality(FavoritesOf(favorites, user, product)) > 1
  THEN [favorites |-> favorites, response |-> [status |-> 500]]
  ELSE IF ~got.created
  THEN [favorites |-> DeleteFavorite(got.rows, user, product),
        response |-> JsonResponse(200, FALSE)]
  ELSE [favorites |-> got.rows, response |-> JsonResponse(200, TRUE)]

\* toggle_favorite(request, store_id, product_id): the Favorite table
\* afterwards and the response.  user is none for an anonymous request,
\* which login_required redirects.
toggle_favorite(user, method, store_id, product_id) ==
  IF user = NoneVal THEN [favorites |-> favorites, response |-> [status |-> 302]]
  ELSE IF method # "POST" THEN [favorites |-> favorites, response |-> [status |-> 405]]
  ELSE IF ProductGet(store_id, product_id) = NoneVal
  THEN [favorites |-> favorites, response |-> [status |-> 404]]
  ELSE ToggleFound(Get(user), Get(ProductGet(store_id, product_id)),
                   GetOrCreate(favorites, Get(user), Get(ProductGet(store_id, product_id))))

\* The keys a request can name: those of the rows the table is filled from.
ProductKeys == {<<SeedProducts[i].store_id, SeedProducts[i].product_id>> : i \in 1..Len(SeedProducts)}

ToggleFavorite ==
  \E user \in {NoneVal} \cup {Some(u) : u \in Users}, method \in {"GET", "POST"},
     key \in ProductKeys :
    /\ op.name = "none"
    /\ op' = [name |-> "toggle_favorite", user |-> user, method |-> method,
              store_id |-> key[1], product_id |-> key[2]]
    /\ favorites' = toggle_favorite(user, method, key[1], key[2]).favorites
    /\ ret' = toggle_favorite(user, method, key[1], key[2]).response
    /\ UNCHANGED <<brand_order, products, profiles, link_codes, now, price_data>>

InitFavorite ==
  /\ brand_order = RUSSIAN_BRANDS_LITERAL
  /\ products \in {table \in Tables :
                     \A i \in 1..Len(table) : table[i].store_id = "magnit"}
  /\ NoUserData
  /\ NoPriceData
  /\ op = [name |-> "none"]
  /\ ret = NoneVal

NextFavorite == ToggleFavorite \/ Return

SpecFavorite == InitFavorite /\ [][NextFavorite]_vars

(***************************************************************************)
(* link_telegram                                                           *)
(***************************************************************************)
\* The fields of TelegramLinkCode (accounts/models.py), with the primary key
\* and the column of the foreign key.
LinkCodeFields == {"id", "user", "user_id", "code", "created_at", "expires_at", "is_used"}

\* The fields named by the lookup of the valid code.
LookupFields == {"code", "is_used", "expires_at", "telegram_chat_id"}

Redirect(message) == [status |-> 302, message |-> message]

\* What the request leaves behind: the two tables and the response.
Outcome(new_profiles, new_link_codes, response) ==
  [profiles |-> new_profiles, link_codes |-> new_link_codes, response |-> response]

\* action == 'unlink'
UnlinkTelegram(user) ==
  IF TruthyStr(profiles[user])
  THEN Outcome([profiles EXCEPT ![user] = NoneVal], link_codes, Redirect("success"))
  ELSE Outcome(profiles, link_codes, Redirect("warning"))

\* TelegramLinkCode.objects.filter(expires_at__lt=timezone.now()).delete()
Unexpired(rows) == Pick(rows, [i \in 1..Len(rows) |-> ~(rows[i].expires_at < now)])

\* The rows that get(code=code, is_used=False, expires_at__gt=now,
\* telegram_chat_id__isnull=False) matches.
ValidCodes(rows, code) ==
  {i \in 1..Len(rows) :
     /\ rows[i].code = code
     /\ ~rows[i].is_used
     /\ rows[i].expires_at > now
     /\ rows[i].telegram_chat_id # NoneVal}

\* The valid code rows[i] is found: refuse a chat id linked to another
\* account, else link the profile and mark the code used.
LinkFound(user, rows, i) ==
  IF \E other \in Users \ {user} : profiles[other] = rows[i].telegram_chat_id
  THEN Outcome(profiles, rows, Redirect("error"))
  ELSE Outcome([profiles EXCEPT ![user] = rows[i].telegram_chat_id],
               [rows EXCEPT ![i].is_used = TRUE, ![i].user = user],
               Redirect("success"))

\* The lookup of the code among rows, the table after the expired codes are
\* deleted.  A lookup naming a field the model class does not declare raises
\* FieldError, which the view does not catch.
LinkLookup(user, rows, code) ==
  IF ~(LookupFields \subseteq LinkCodeFields)
  THEN Outcome(profiles, rows, [status |-> 500, message |-> "FieldError"])
  ELSE IF ValidCodes(rows, code) = {}
  THEN Outcome(profiles, rows, Redirect("error"))
  ELSE LinkFound(user, rows, CHOOSE i \in ValidCodes(rows, code) : TRUE)

\* The link branch for code = request.POST.get('code', '').strip().upper()
LinkWithCode(user, code) ==
  IF code = <<>> THEN Outcome(profiles, link_codes, Redirect("error"))
  ELSE LinkLookup(user, Unexpired(link_codes), code)

\* link_telegram(request); user is none for an anonymous request, which
\* login_required redirects.
link_telegram(user, method, action, code) ==
  IF user = NoneVal THEN Outcome(profiles, link_codes, Redirect("login"))
  ELSE IF method # "POST" THEN Outcome(profiles, link_codes, Redirect("none"))
  ELSE IF action = "unlink" THEN UnlinkTelegram(Get(user))
  ELSE LinkWithCode(Get(user), Upper(Strip(code)))

MaxNow == 2   \* minutes the clock runs

LinkCode(user, code, expires_at, is_used) ==
  [user |-> user, code |-> code, expires_at |-> expires_at, is_used |-> is_used]

\* The rows the TelegramLinkCode table is filled from; code is unique.
SeedLinkCodes ==
  << LinkCode("anna", C_AB12, 2, FALSE)
   , LinkCode("boris", C_CD34, 1, FALSE)
   , LinkCode("anna", C_EF56, 2, TRUE) >>

LinkCodeTables ==
  {Pick(SeedLinkCodes, [i \in 1..Len(SeedLinkCodes) |-> i \in S]) :
     S \in SUBSET (1..Len(SeedLinkCodes))}

\* telegram_chat_id is unique among the profiles that have one.
ProfileTables ==
  {p \in [Users -> {NoneVal, Some(I_111), Some(I_222)}] :
     \A u, v \in Users : (u # v /\ p[u] # NoneVal) => p[u] # p[v]}

\* What is typed into the code field.
SubmittedCodes == {<<>>, W_Blank, C_AB12, C_ab12, C_AB12Padded, C_CD34, C_EF56, C_ZZ99}

LinkTelegram ==
  \E user \in {NoneVal} \cup {Some(u) : u \in Users}, method \in {"GET", "POST"},
     action \in {"link", "unlink"}, code \in SubmittedCodes :
    /\ op.name = "none"
    /\ op' = [name |-> "link_telegram", user |-> user, method |-> method,
              action |-> action, code |-> code]
    /\ profiles' = link_telegram(user, method, action, code).profiles
    /\ link_codes' = link_telegram(user, method, action, code).link_codes
    /\ ret' = link_telegram(user, method, action, code).response
    /\ UNCHANGED <<brand_order, products, favorites, now, price_data>>

\* A minute passes between two requests.
Tick ==
  /\ op.name = "none"
  /\ now < MaxNow
  /\ now' = now + 1
  /\ UNCHANGED <<brand_order, products, favorites, profiles, link_codes, price_data, op, ret>>

InitTelegram ==
  /\ brand_order = RUSSIAN_BRANDS_LITERAL
  /\ products = <<>>
  /\ favorites = <<>>
  /\ profiles \in ProfileTables
  /\ link_codes \in LinkCodeTables
  /\ now = 0
  /\ NoPriceData
  /\ op = [name |-> "none"]
  /\ ret = NoneVal

NextTelegram == LinkTelegram \/ Tick \/ Return

SpecTelegram == InitTelegram /\ [][NextTelegram]_vars

(***************************************************************************)
(* scrape: saving the scraped products                                     *)
(***************************************************************************)
\* The indices of the rows with the key (store, product_id).
RowsOfKey(rows, store_id, product_id) ==
  {i \in 1..Len(rows) : rows[i].store_id = store_id /\ rows[i].product_id = product_id}

\* Product.objects.update_or_create(store=..., product_id=..., defaults=...):
\* the row of the key gets the defaults and is saved, or a row is created from
\* the key and the defaults (min_price and max_price default to 0).  The
\* table afterwards, the index of the row and the flag created.
UpdateOrCreate(rows, store_id, product_id, name, cat_name, price) ==
  IF RowsOfKey(rows, store_id, product_id) # {}
  THEN [rows |-> [i \in 1..Len(rows) |->
                    IF i \in RowsOfKey(rows, store_id, product_id)
                    THEN [rows[i] EXCEPT !.name = name, !.category_name = cat_name,
                                         !.current_price = price]
                    ELSE rows[i]],
        index |-> CHOOSE i \in RowsOfKey(rows, store_id, product_id) : TRUE,
        created |-> FALSE]
  ELSE [rows |-> Append(rows, [product_id |-> product_id, store_id |-> store_id,
                               name |-> name, category_name |-> cat_name,
                               current_price |-> price, min_price |-> 0, max_price |-> 0]),
        index |-> Len(rows) + 1,
        created |-> TRUE]

\* A row of the PriceHistory table.
PriceHistory(product, price, previous_price) ==
  [store_id |-> product.store_id, product_id |-> product.product_id,
   price |-> price, previous_price |-> previous_price]

\* if product.current_price != price and price > 0, for the product that
\* update_or_create returned.
PriceChanged(product, price) == product.current_price # price /\ price > 0

\* The product after the price tracking branch.
TrackedProduct(product, price) ==
  [product EXCEPT
     !.min_price = IF price < product.min_price \/ product.min_price = 0
                   THEN price ELSE product.min_price,
     !.max_price = IF price > product.max_price THEN price ELSE product.max_price,
     !.current_price = price]

\* The Product table after the branches on created, for the result u of
\* update_or_create.
ProductsAfter(u, price) ==
  IF u.created
  THEN [u.rows EXCEPT ![u.index].min_price = price, ![u.index].max_price = price]
  ELSE IF PriceChanged(u.rows[u.index], price)
       THEN [u.rows EXCEPT ![u.index] = TrackedProduct(u.rows[u.index], price)]
       ELSE u.rows

\* The PriceHistory table after the branches on created.
HistoryAfter(history, u, price) ==
  IF ~u.created /\ PriceChanged(u.rows[u.index], price)
  THEN Append(history, PriceHistory(u.rows[u.index], price,
                                    Some(u.rows[u.index].current_price)))
  ELSE history

\* The product is skipped: no id, an id seen in this run, or no name.
Skipped(seen_ids, p) == p.id = "" \/ p.id \in seen_ids \/ p.name = <<>>

\* What the browser script returns for a product card: id, name and price,
\* the price 0 when none is found on the card.
ScrapedIds == {"", "1"}

ScrapedProducts ==
  [id : ScrapedIds, name : {<<>>, W_Moloko}, price : 0..MaxPrice]

\* handle(store=store_id): the run starts with seen_ids empty.
Scrape ==
  \E store_id \in StoreIds :
    /\ op.name = "none"
    /\ op' = [name |-> "scrape", store_id |-> store_id, seen_ids |-> {}, p |-> NoneVal]
    /\ ret' = NoneVal
    /\ UNCHANGED <<brand_order, products, user_data, price_data>>

\* One pass of 'for p in products_data' of scrape_5ka and of scrape_magnit.
ScrapeProduct ==
  \E p \in ScrapedProducts, cat_name \in {K_Dairy} :
    /\ op.name = "scrape"
    /\ RowsOfKey(products, op.store_id, p.id) = {} => Len(products) < MaxProducts
    /\ op' = [op EXCEPT !.seen_ids = IF p.id = "" THEN @ ELSE @ \cup {p.id},
                        !.p = Some(p)]
    /\ IF Skipped(op.seen_ids, p)
       THEN UNCHANGED <<products, price_history>>
       ELSE /\ products' =
                 ProductsAfter(UpdateOrCreate(products, op.store_id, p.id, p.name,
                                              cat_name, p.price), p.price)
            /\ price_history' =
                 HistoryAfter(price_history,
                              UpdateOrCreate(products, op.store_id, p.id, p.name,
                                             cat_name, p.price), p.price)
    /\ UNCHANGED <<brand_order, user_data, alerts, sent, ret>>

InitScrape ==
  /\ brand_order = RUSSIAN_BRANDS_LITERAL
  /\ products = <<>>
  /\ NoUserData
  /\ NoPriceData
  /\ op = [name |-> "none"]
  /\ ret = NoneVal

NextScrape == Scrape \/ ScrapeProduct \/ Return

SpecScrape == InitScrape /\ [][NextScrape]_vars

(***************************************************************************)
(* toggle_alert and check_and_notify                                       *)
(***************************************************************************)
\* A row of the PriceAlert table: the user and the key of the product, and
\* the fields of the alert.
PriceAlert(user, product, target_price, notify_any_decrease, last_price, is_active) ==
  [user |-> user, store_id |-> product.store_id, product_id |-> product.product_id,
   target_price |-> target_price, notify_any_decrease |-> notify_any_decrease,
   last_price |-> last_price, last_notified_at |-> NoneVal, is_active |-> is_active]

\* The indices of the alerts of the pair; (user, product) is unique.
AlertsOf(rows, user, product) ==
  {i \in 1..Len(rows) : /\ rows[i].user = user
                        /\ rows[i].store_id = product.store_id
                        /\ rows[i].product_id = product.product_id}

\* The branch 'if not created' of toggle_alert: an active alert is disabled,
\* a disabled one is enabled with last_price taken from the product.
ToggledAlert(alert, product) ==
  IF alert.is_active
  THEN [alert EXCEPT !.is_active = FALSE]
  ELSE [alert EXCEPT !.is_active = TRUE, !.last_price = Some(product.current_price)]

\* The try block of toggle_alert once the product is found: get_or_create
\* with the defaults, then the branch on created.
AlertToggleFound(user, product) ==
  IF AlertsOf(alerts, user, product) = {}
  THEN [alerts |-> Append(alerts, PriceAlert(user, product, NoneVal, TRUE,
                                             Some(product.current_price), TRUE)),
        response |-> [status |-> 200, has_alert |-> TRUE]]
  ELSE [alerts |-> [i \in 1..Len(alerts) |->
                      IF i \in AlertsOf(alerts, user, product)
                      THEN ToggledAlert(alerts[i], product) ELSE alerts[i]],
        response |-> [status |-> 200,
                      has_alert |-> \E i \in AlertsOf(alerts, user, product) :
                                      ~alerts[i].is_active]]

\* toggle_alert(request, store_id, product_id): the PriceAlert table
\* afterwards and the response.
toggle_alert(user, method, store_id, product_id) ==
  IF user = NoneVal THEN [alerts |-> alerts, response |-> [status |-> 302]]
  ELSE IF method # "POST" THEN [alerts |-> alerts, response |-> [status |-> 405]]
  ELSE IF ProductGet(store_id, product_id) = NoneVal
  THEN [alerts |-> alerts, response |-> [status |-> 404]]
  ELSE AlertToggleFound(Get(user), Get(ProductGet(store_id, product_id)))

\* alert.product.current_price.
CurrentPrice(alert) == Get(ProductGet(alert.store_id, alert.product_id)).current_price

\* A Decimal that is set and not zero.
TruthyPrice(o) == o # <<>> /\ Get(o) # 0

\* reason after the two tests of check_and_notify, '' when should_notify
\* stays False; last_price is set.
Reason(alert, current_price) ==
  IF alert.notify_any_decrease /\ current_price < Get(alert.last_price)
  THEN "price decreased"
  ELSE IF TruthyPrice(alert.target_price) /\ current_price <= Get(alert.target_price)
  THEN "reached target price"
  ELSE ""

\* send_notification is called for the alert: last_price is set,
\* should_notify is True and the profile of the user has a chat id.
Notified(alert, current_price) ==
  /\ alert.last_price # NoneVal
  /\ Reason(alert, current_price) # ""
  /\ TruthyStr(profiles[alert.user])

\* The arguments of the call of send_notification.
Notification(alert, current_price) ==
  [chat_id |-> Get(profiles[alert.user]),
   store_id |-> alert.store_id, product_id |-> alert.product_id,
   old_price |-> Get(alert.last_price), new_price |-> current_price,
   reason |-> Reason(alert, current_price)]

\* The loop body that leaves last_price alone after a notification.
AlertAfterKeepingLastPrice(alert, current_price, success) ==
  IF alert.last_price = NoneVal
  THEN [alert EXCEPT !.last_price = Some(current_price)]
  ELSE IF current_price # Get(alert.last_price) /\ ~Notified(alert, current_price)
  THEN [alert EXCEPT !.last_price = Some(current_price)]
  ELSE alert

\* The alert after the body of 'for alert in alerts'; success is what
\* send_notification returns when it is called.  last_notified_at is
\* written to the row only by the save() of a changed price.
AlertAfter(alert, current_price, success) ==
  IF alert.last_price = NoneVal
  THEN [alert EXCEPT !.last_price = Some(current_price)]
  ELSE IF current_price # Get(alert.last_price)
  THEN [alert EXCEPT !.last_price = Some(current_price),
                     !.last_notified_at =
                        IF Notified(alert, current_price) /\ success THEN Some(now) ELSE @]
  ELSE alert

\* The calls of send_notification of a pass over the rows from index i on.
RECURSIVE SentFrom(_, _)
SentFrom(rows, i) ==
  IF i > Len(rows) THEN <<>>
  ELSE (IF rows[i].is_active /\ Notified(rows[i], CurrentPrice(rows[i]))
        THEN <<Notification(rows[i], CurrentPrice(rows[i]))>> ELSE <<>>)
       \o SentFrom(rows, i + 1)

\* check_and_notify(): the PriceAlert table and the calls of
\* send_notification after the pass; nothing happens without a token, and
\* only the active alerts are processed.  success[i] is the result of the
\* call for row i.
check_and_notify(token, success) ==
  IF token = <<>> THEN [alerts |-> alerts, sent |-> <<>>]
  ELSE [alerts |-> [i \in 1..Len(alerts) |->
                      IF alerts[i].is_active
                      THEN AlertAfter(alerts[i], CurrentPrice(alerts[i]), success[i])
                      ELSE alerts[i]],
        sent |-> SentFrom(alerts, 1)]

\* The keys a request for an alert names: a product of the table and one
\* that is not there.
AlertKeys == {<<"5ka", "1">>, <<"5ka", "9">>}

ToggleAlert ==
  \E user \in {NoneVal} \cup {Some(u) : u \in Users}, method \in {"GET", "POST"},
     key \in AlertKeys :
    /\ op.name = "none"
    /\ op' = [name |-> "toggle_alert", user |-> user, method |-> method,
              store_id |-> key[1], product_id |-> key[2]]
    /\ alerts' = toggle_alert(user, method, key[1], key[2]).alerts
    /\ ret' = toggle_alert(user, method, key[1], key[2]).response
    /\ UNCHANGED <<brand_order, products, user_data, price_history, sent>>

\* settings.TELEGRAM_BOT_TOKEN: not set, or a token.
Tokens == {<<>>, C_AB12}

CheckAndNotify ==
  \E token \in Tokens, success \in [1..Len(alerts) -> BOOLEAN] :
    /\ op.name = "none"
    /\ op' = [name |-> "check_and_notify", token |-> token, success |-> success]
    /\ alerts' = check_and_notify(token, success).alerts
    /\ sent' = check_and_notify(token, success).sent
    /\ ret' = NoneVal
    /\ UNCHANGED <<brand_order, products, user_data, price_history>>

\* The alerts set up in the admin site for the product of AlertKeys: none,
\* or one of anna with a target price.
AdminAlerts ==
  {<<>>} \cup
  {<<PriceAlert("anna", [store_id |-> "5ka", product_id |-> "1"], Some(1),
                notify_any_decrease, last_price, TRUE)>> :
     notify_any_decrease \in BOOLEAN, last_price \in {NoneVal, Some(MaxPrice)}}

\* anna has linked Telegram, boris has not.
InitNotify ==
  /\ brand_order = RUSSIAN_BRANDS_LITERAL
  /\ products = <<Product("1", "5ka", W_Moloko, MaxPrice), Product("2", "5ka", W_Syr, 1)>>
  /\ favorites = <<>>
  /\ profiles = [u \in Users |-> IF u = "anna" THEN Some(I_111) ELSE NoneVal]
  /\ link_codes = <<>>
  /\ now = 0
  /\ price_history = <<>>
  /\ alerts \in AdminAlerts
  /\ sent = <<>>
  /\ op = [name |-> "none"]
  /\ ret = NoneVal

NextNotify == ToggleAlert \/ CheckAndNotify \/ Scrape \/ ScrapeProduct \/ Return

SpecNotify == InitNotify /\ [][NextNotify]_vars

(***************************************************************************)
(* Properties of calculate_similarity_score                                *)
(***************************************************************************)
ScoreCalled == op.name = "calculate_similarity_score"

\* The call passed the attributes parsed from its two names.
ParsedCall ==
  /\ ScoreCalled
  /\ op.attrs1 = parse_product_attributes(op.name1)
  /\ op.attrs2 = parse_product_attributes(op.name2)

\* The three conditions of a failed gate, as the contract words them.
FirstWordsUnrelated(name1, name2) ==
  LET w1 == FirstWord(normalize_text(name1))
      w2 == FirstWord(normalize_text(name2))
  IN  /\ w1 # w2
      /\ stem_russian(w1) # stem_russian(w2)
      /\ ~Contains(w1, w2)
      /\ ~Contains(w2, w1)

TypesUnrelated(attrs1, attrs2) ==
  ~ /\ TruthyStr(attrs1.product_type)
    /\ TruthyStr(attrs2.product_type)
    /\ \/ Get(attrs1.product_type) = Get(attrs2.product_type)
       \/ stem_russian(Get(attrs1.product_type)) = stem_russian(Get(attrs2.product_type))

FewCommonWords(name1, name2) ==
  Cardinality(NameWords(normalize_text(name1)) \cap NameWords(normalize_text(name2))) < 2

GateFails ==
  /\ FirstWordsUnrelated(op.name1, op.name2)
  /\ TypesUnrelated(op.attrs1, op.attrs2)
  /\ FewCommonWords(op.name1, op.name2)

\* C1: when the gate fails (first words unrelated, product types not both
\* present and equal or of equal stems, fewer than 2 common words),
\* calculate_similarity_score returns exactly 0, whatever the other signals.
C1_GateFailureScoresZero == (ScoreCalled /\ GateFails) => ret = 0

\* A failed gate with equal brands on both sides, which would earn 35.
C1_Witness ==
  /\ ScoreCalled
  /\ GateFails
  /\ TruthyStr(op.attrs1.brand)
  /\ op.attrs1.brand = op.attrs2.brand
  /\ ret = 0

\* C2: calculate_similarity_score returns an integer s with 0 <= s <= 100,
\* also when the summed bonuses exceed 100.
C2_ScoreWithinBounds == ScoreCalled => ret \in 0..100

\* The bonuses sum to more than 100 and the result is 100.
C2_Witness ==
  /\ ScoreCalled
  /\ SumScore(op.attrs1, op.attrs2, normalize_text(op.name1), normalize_text(op.name2)) > 100
  /\ ret = 100

\* C3: calculate_similarity_score is symmetric: exchanging the two attribute
\* records together with the two names gives the same score.
C3_ScoreSymmetric ==
  ScoreCalled =>
    ret = calculate_similarity_score(op.attrs2, op.attrs1, op.name2, op.name1)

\* A positive score for two different names with different attributes, one
\* first word a proper part of the other.
C3_Witness ==
  /\ ScoreCalled
  /\ op.attrs1 # op.attrs2
  /\ FirstWord(normalize_text(op.name1)) # FirstWord(normalize_text(op.name2))
  /\ Contains(FirstWord(normalize_text(op.name2)), FirstWord(normalize_text(op.name1)))
  /\ ~Contains(FirstWord(normalize_text(op.name1)), FirstWord(normalize_text(op.name2)))
  /\ op.name1 # <<>> /\ op.name2 # <<>>
  /\ ret > 0

\* A non-empty name scored against an exact duplicate of itself, with the
\* attributes parsed from it on both sides.
SelfScored == ParsedCall /\ op.name1 = op.name2 /\ op.name1 # <<>>

\* C4 as stated: every non-empty name scores at least 70 against an exact
\* duplicate of itself.
C4_Original == SelfScored => ret >= 70

\* C4: a name from which parse_product_attributes extracts a brand scores at
\* least 70 against an exact duplicate of itself.
C4_BrandedDuplicateScoresHigh ==
  (SelfScored /\ TruthyStr(op.attrs1.brand)) => ret >= 70

C4_Witness == SelfScored /\ TruthyStr(op.attrs1.brand) /\ ret >= 70

\* Same first word, both extracted brands present, both volumes present and
\* equal.
SameTypeAndVolume ==
  /\ ParsedCall
  /\ normalize_text(op.name1) # <<>>
  /\ FirstWord(normalize_text(op.name1)) = FirstWord(normalize_text(op.name2))
  /\ TruthyStr(op.attrs1.brand) /\ TruthyStr(op.attrs2.brand)
  /\ op.attrs1.volume_ml # NoneVal /\ op.attrs2.volume_ml # NoneVal
  /\ RatEq(Get(op.attrs1.volume_ml), Get(op.attrs2.volume_ml))

\* C5 as stated: same first word, extracted brands present and different,
\* same volume: the score s has 30 < s < 80.
C5_Original ==
  (SameTypeAndVolume /\ Get(op.attrs1.brand) # Get(op.attrs2.brand)) =>
    (30 < ret /\ ret < 80)

\* C5: same first word, extracted brands present and different even when
\* letter case is ignored, same volume: the score s has 30 < s < 80.
C5_DifferentBrandScoresMidRange ==
  (SameTypeAndVolume /\ Lower(Get(op.attrs1.brand)) # Lower(Get(op.attrs2.brand))) =>
    (30 < ret /\ ret < 80)

C5_Witness ==
  /\ SameTypeAndVolume
  /\ Lower(Get(op.attrs1.brand)) # Lower(Get(op.attrs2.brand))
  /\ 30 < ret /\ ret < 80

(***************************************************************************)
(* Properties of the similar-products functions                            *)
(***************************************************************************)
\* The call returned a ranked list.
ListCalled == op.name \in {"get_similar_products_v2", "get_cross_store_comparison"}

\* The store whose catalog the call ranks.
RankedStore ==
  IF op.name = "get_similar_products_v2" THEN op.store_id
  ELSE IF op.source_store = "5ka" THEN "magnit" ELSE "5ka"

\* The score of a row against the source of the call.
ScoreAgainstSource(row) ==
  calculate_similarity_score(parse_product_attributes(op.product_name),
                             parse_product_attributes(row.name),
                             op.product_name, row.name)

\* The rows of the ranked store that are candidates: another identifier and
\* a search term in the normalized name.
CandidateRows ==
  {products[i] : i \in {j \in 1..Len(products) :
     /\ products[j].store_id = RankedStore
     /\ products[j].product_id # op.product_id
     /\ \E term \in SearchTerms(op.product_name, parse_product_attributes(op.product_name)) :
          Contains(term, normalize_text(products[j].name))}}

\* C6: every record returned by get_similar_products_v2, and so by
\* get_cross_store_comparison, has similarity_score > 20, the score of its
\* product against the source.
C6_ReturnedAboveFloor ==
  ListCalled =>
    \A i \in 1..Len(ret) :
      /\ ret[i].similarity_score > 20
      /\ ret[i].similarity_score = ScoreAgainstSource(ret[i].product)

\* A candidate scoring 20 or less is left out of a non-empty result.
C6_Witness ==
  /\ ListCalled
  /\ ret # <<>>
  /\ \E row \in CandidateRows :
       /\ ScoreAgainstSource(row) <= 20
       /\ \A i \in 1..Len(ret) : ret[i].product # row

FindCalled == op.name = "find_exact_match_cross_store"

\* The top of the other store's ranking for the source of the call.
TopOfOtherStore ==
  get_cross_store_comparison(op.product_name, op.product_id, op.source_store,
                             op.current_price, 1)

\* C7: find_exact_match_cross_store ranks the catalog of the other store,
\* never the source store's, and returns the top-ranked candidate if and only
\* if its similarity_score is at least 60; otherwise none.
C7_BestMatchNeedsSixty ==
  FindCalled =>
    /\ TargetStore(op.source_store) # op.source_store
    /\ ret # NoneVal =>
         /\ Get(ret).product.store_id # op.source_store
         /\ Get(ret).similarity_score >= 60
    /\ IF TopOfOtherStore # <<>> /\ TopOfOtherStore[1].similarity_score >= 60
       THEN ret = Some(TopOfOtherStore[1])
       ELSE ret = NoneVal

\* None is returned although a candidate scoring below 60 exists.
C7_Witness ==
  /\ FindCalled
  /\ ret = NoneVal
  /\ TopOfOtherStore # <<>>
  /\ TopOfOtherStore[1].similarity_score < 60

\* C8: no returned candidate has the source product's identifier, and no
\* identifier occurs twice in the returned list.
C8_NoSelfNoDuplicates ==
  ListCalled =>
    /\ \A i \in 1..Len(ret) : ret[i].product.product_id # op.product_id
    /\ \A i, j \in 1..Len(ret) :
         ret[i].product.product_id = ret[j].product.product_id => i = j

\* The ranked store holds a row with the source's identifier that scores
\* above the floor, and the result is not empty.
C8_Witness ==
  /\ ListCalled
  /\ ret # <<>>
  /\ \E i \in 1..Len(products) :
       /\ products[i].store_id = RankedStore
       /\ products[i].product_id = op.product_id
       /\ ScoreAgainstSource(products[i]) > 20

\* C9 as stated: for every source price, price_diff is the candidate's
\* current price minus the source price.
C9_Original ==
  ListCalled =>
    \A i \in 1..Len(ret) :
      ret[i].price_diff = ret[i].product.current_price - op.current_price

\* C9: for a source price other than 0, price_diff is the candidate's current
\* price minus the source price; for the source price 0, price_diff is 0.
C9_PriceDiffUnlessSourceFree ==
  ListCalled =>
    \A i \in 1..Len(ret) :
      ret[i].price_diff = IF op.current_price = 0 THEN 0
                          ELSE ret[i].product.current_price - op.current_price

\* Both cases: a priced candidate for the source price 0, and a candidate
\* cheaper than a priced source.
C9_Witness ==
  /\ ListCalled
  /\ \E i \in 1..Len(ret) :
       \/ op.current_price = 0 /\ ret[i].product.current_price > 0 /\ ret[i].price_diff = 0
       \/ op.current_price > 0 /\ ret[i].price_diff < 0

\* The candidates above the floor.
EligibleRows == {row \in CandidateRows : ScoreAgainstSource(row) > 20}

\* x is ranked strictly before y: higher score, or equal score and lower price.
RanksBefore(xs, xp, ys, yp) == xs > ys \/ (xs = ys /\ xp < yp)

\* C10: the returned list is ordered by descending similarity_score, ties by
\* ascending candidate price, and is exactly the first `limit` entries of
\* that ordering of all candidates above the floor.
C10_RankedAndTruncated ==
  ListCalled =>
    /\ \A i, j \in 1..Len(ret) :
         i < j => ~RanksBefore(ret[j].similarity_score, ret[j].product.current_price,
                               ret[i].similarity_score, ret[i].product.current_price)
    /\ Len(ret) = IF op.limit < Cardinality(EligibleRows) THEN op.limit
                  ELSE Cardinality(EligibleRows)
    /\ {ret[i].product : i \in 1..Len(ret)} \subseteq EligibleRows
    /\ \A row \in EligibleRows \ {ret[i].product : i \in 1..Len(ret)} :
         \A i \in 1..Len(ret) :
           ~RanksBefore(ScoreAgainstSource(row), row.current_price,
                        ret[i].similarity_score, ret[i].product.current_price)

\* Two candidates of equal score are returned in price order, against the
\* order of the table.
C10_Witness ==
  /\ ListCalled
  /\ Len(ret) >= 2
  /\ ret[1].similarity_score = ret[2].similarity_score
  /\ ret[1].product.current_price < ret[2].product.current_price
  /\ \E i, j \in 1..Len(products) :
       i < j /\ products[j] = ret[1].product /\ products[i] = ret[2].product

(***************************************************************************)
(* Properties of smart_search                                              *)
(***************************************************************************)
SearchCalled == op.name = "smart_search"

\* The query passes the length test and yields a token, so that the products
\* are scanned.
Searchable ==
  /\ Len(op.query) >= 2
  /\ SearchTokens(op.query, normalize_text(op.query)) # <<>>

\* The products the call scans: of the store, and of the category if one is
\* given.
ScannedRows ==
  {products[i] : i \in {j \in 1..Len(products) :
     /\ products[j].store_id = op.store_id
     /\ (op.category # NoneVal /\ Get(op.category) # <<>>) =>
          products[j].category_name = Get(op.category)}}

\* The relevance score of a scanned product for the query of the call.
ScoreOfRow(row) ==
  RelevanceScore(normalize_text(op.query),
                 SearchTokens(op.query, normalize_text(op.query)), row)

PositiveRows == {row \in ScannedRows : ScoreOfRow(row) > 0}

ReturnedRows == {ret[i][1] : i \in 1..Len(ret)}

\* (xs, xn) comes strictly before (ys, yn): higher score, or equal score and
\* the lesser name.
ComesBefore(xs, xn, ys, yn) == xs > ys \/ (xs = ys /\ StrLess(xn, yn))

\* C11: the list returned by smart_search is in non-increasing score order,
\* equal scores in ascending product-name order, and it is exactly the first
\* `limit` entries of that ordering of all scanned products with a positive
\* score.
C11_OrderedAndTruncated ==
  (SearchCalled /\ Searchable) =>
    /\ \A i, j \in 1..Len(ret) :
         i < j => /\ ret[i][2] >= ret[j][2]
                  /\ ret[i][2] = ret[j][2] => ~StrLess(ret[j][1].name, ret[i][1].name)
    /\ Len(ret) = IF op.limit < Cardinality(PositiveRows) THEN op.limit
                  ELSE Cardinality(PositiveRows)
    /\ Cardinality(ReturnedRows) = Len(ret)
    /\ \A i \in 1..Len(ret) :
         ret[i][1] \in PositiveRows /\ ret[i][2] = ScoreOfRow(ret[i][1])
    /\ \A row \in PositiveRows \ ReturnedRows :
         \A i \in 1..Len(ret) :
           ~ComesBefore(ScoreOfRow(row), row.name, ret[i][2], ret[i][1].name)

\* Two products of equal score are returned in name order, against the order
\* of the table.
C11_Witness ==
  /\ SearchCalled
  /\ Len(ret) = 2
  /\ ret[1][2] = ret[2][2]
  /\ StrLess(ret[1][1].name, ret[2][1].name)
  /\ \E i, j \in 1..Len(products) :
       i < j /\ products[j] = ret[1][1] /\ products[i] = ret[2][1]

\* C12: smart_search returns an empty list when the query has fewer than 2
\* characters, when no scanned product gets a positive score, and when the
\* store's catalog slice is empty.
C12_EmptyResults ==
  SearchCalled =>
    /\ Len(op.query) < 2 => ret = <<>>
    /\ ScannedRows = {} => ret = <<>>
    /\ PositiveRows = {} => ret = <<>>

\* A query that is searched, over a catalog slice that is not empty, matches
\* nothing.
C12_Witness ==
  /\ SearchCalled
  /\ Searchable
  /\ ScannedRows # {}
  /\ PositiveRows = {}
  /\ ret = <<>>

\* C13: search is case-insensitive: the query in lower case, in upper case
\* and in title case returns the same products, with the same scores, in the
\* same order, as the query itself.
C13_CaseInsensitive ==
  SearchCalled =>
    /\ ret = smart_search(op.store_id, Lower(op.query), op.category, op.limit)
    /\ ret = smart_search(op.store_id, Upper(op.query), op.category, op.limit)
    /\ ret = smart_search(op.store_id, Title(op.query), op.category, op.limit)

\* A query with an upper-case letter finds a product.
C13_Witness ==
  /\ SearchCalled
  /\ op.query # Lower(op.query)
  /\ op.query # Upper(op.query)
  /\ ret # <<>>

\* The relevance score as the contract words it.
ClaimedScore(row) ==
  LET q == normalize_text(op.query)
      n == normalize_text(row.name)
      tokens == SearchTokens(op.query, q)
      whole == {i \in 1..Len(tokens) : Contains(tokens[i], n)}
      stemmed == {i \in 1..Len(tokens) \ whole :
                    /\ Len(stem_russian(tokens[i])) >= 3
                    /\ Contains(stem_russian(tokens[i]), n)}
  IN  (IF Contains(q, n) THEN 100 ELSE 0)
      + (IF Contains(q, n) /\ StartsWith(n, q) THEN 20 ELSE 0)
      + 30 * Cardinality(whole)
      + 20 * Cardinality(stemmed)
      + (IF Len(tokens) > 1 /\ whole \cup stemmed = 1..Len(tokens) THEN 25 ELSE 0)
      + (IF Contains(q, normalize_text(row.category_name)) THEN 15 ELSE 0)

\* Every returned score is the claimed sum.
ScoresAsClaimed == \A i \in 1..Len(ret) : ret[i][2] = ClaimedScore(ret[i][1])

\* C20 as stated: the score of a scanned product is the claimed sum, and a
\* product is returned if and only if this sum is positive.
C20_Original ==
  (SearchCalled /\ Searchable) =>
    /\ ScoresAsClaimed
    /\ \A row \in ScannedRows : row \in ReturnedRows <=> ClaimedScore(row) > 0

\* C20: the score of a scanned product is the claimed sum; a returned product
\* has a positive sum, and a product with a positive sum is returned unless
\* `limit` products that it does not come before are returned.
C20_ScoreFormula ==
  (SearchCalled /\ Searchable) =>
    /\ ScoresAsClaimed
    /\ \A row \in ScannedRows :
         /\ row \in ReturnedRows => ClaimedScore(row) > 0
         /\ (ClaimedScore(row) > 0 /\ row \notin ReturnedRows) =>
              /\ Len(ret) = op.limit
              /\ \A i \in 1..Len(ret) :
                   ~ComesBefore(ClaimedScore(row), row.name, ret[i][2], ret[i][1].name)

\* A product matching the phrase, the start, both tokens and the category is
\* returned, and a product with a positive sum is cut off by the limit.
C20_Witness ==
  /\ SearchCalled
  /\ Len(ret) = op.limit
  /\ ret[1][2] = 100 + 20 + 30 + 30 + 25
  /\ \E row \in ScannedRows : ClaimedScore(row) > 0 /\ row \notin ReturnedRows

(***************************************************************************)
(* Properties of normalize_text, parse_product_attributes and              *)
(* calculate_price_per_unit                                                *)
(***************************************************************************)
NormalizeCalled == op.name = "normalize_text"

\* C14: normalize_text is idempotent, normalize_text(normalize_text(s)) =
\* normalize_text(s) for every string s, and an empty or absent input yields
\* the empty string.
C14_NormalizeIdempotent ==
  NormalizeCalled =>
    /\ normalize_text(ret) = ret
    /\ op.text = <<>> => ret = <<>>

\* A text with "Ё" and whitespace to drop is changed by the first pass.
C14_Witness ==
  /\ NormalizeCalled
  /\ \E i \in 1..Len(op.text) : op.text[i] = 1025
  /\ ret # <<>>
  /\ Len(ret) < Len(op.text)
  /\ normalize_text(ret) = ret

ParseCalled == op.name = "parse_product_attributes"

\* The number of the first of the two parts written in the unit, or none.
FirstOf(unit, part1, part2) ==
  IF part1.unit = unit THEN Some(part1.value)
  ELSE IF part2.unit = unit THEN Some(part2.value)
  ELSE NoneVal

\* The quantity in the small unit if there is one, else 1000 times the
\* quantity in the large unit, else none.
SmallUnitFirst(small, large) ==
  IF small # NoneVal THEN small
  ELSE IF large # NoneVal THEN Some(Rat(1000 * Get(large).num, Get(large).den))
  ELSE NoneVal

\* Two optional numbers are both absent or equal.
SameQuantity(a, b) ==
  IF a = NoneVal \/ b = NoneVal THEN a = b ELSE RatEq(Get(a), Get(b))

\* C15: parse_product_attributes sets volume_ml to n for a number n followed
\* by a millilitre marker, and only without a millilitre quantity to 1000*n
\* for a number n followed by a litre marker; weight_g likewise from grams
\* first and only otherwise from 1000 times kilograms; the attribute is
\* absent when neither form occurs.
C15_SmallUnitsFirst ==
  ParseCalled =>
    \A head \in {W_Moloko, W_Syr}, part1 \in QuantityParts, part2 \in QuantityParts :
      QuantityName(head, part1, part2) = op.product_name =>
        /\ SameQuantity(ret.volume_ml,
                        SmallUnitFirst(FirstOf("ml", part1, part2), FirstOf("l", part1, part2)))
        /\ SameQuantity(ret.weight_g,
                        SmallUnitFirst(FirstOf("g", part1, part2), FirstOf("kg", part1, part2)))

\* Litres written before millilitres: the millilitres are taken.
C15_Witness ==
  /\ ParseCalled
  /\ \E part1 \in QuantityParts, part2 \in QuantityParts :
       /\ part1.unit = "l" /\ part2.unit = "ml"
       /\ QuantityName(W_Moloko, part1, part2) = op.product_name
       /\ ret.volume_ml = Some(part2.value)
       /\ ret.weight_g = NoneVal

PriceCalled == op.name = "calculate_price_per_unit"

\* price / quantity * 1000 in roubles, for a price in kopecks.
PerThousand(price, quantity) == Rat(price * 1000 * quantity.den, 100 * quantity.num)

\* The result as the contract words it, for the parsed attributes.
ClaimedPricePerUnit(price, attrs) ==
  IF attrs.volume_ml # NoneVal /\ Get(attrs.volume_ml).num > 0
  THEN Some([value |-> PerThousand(price, Get(attrs.volume_ml)), unit |-> <<1083>>])
  ELSE IF attrs.weight_g # NoneVal /\ Get(attrs.weight_g).num > 0
  THEN Some([value |-> PerThousand(price, Get(attrs.weight_g)), unit |-> <<1082, 1075>>])
  ELSE NoneVal

\* Two optional results are both none or have the same unit and value.
SamePricePerUnit(a, b) ==
  IF a = NoneVal \/ b = NoneVal THEN a = b
  ELSE Get(a).unit = Get(b).unit /\ RatEq(Get(a).value, Get(b).value)

\* C16 as stated: for every product price the result is per litre for a
\* positive volume, otherwise per kilogram for a positive weight, otherwise
\* none.
C16_Original ==
  PriceCalled =>
    SamePricePerUnit(ret, ClaimedPricePerUnit(op.product.current_price,
                                              parse_product_attributes(op.product.name)))

\* C16: for every product price other than 0 the result is per litre for a
\* positive volume, otherwise per kilogram for a positive weight, otherwise
\* none; for the price 0 it is none.
C16_PricePerUnitUnlessFree ==
  PriceCalled =>
    IF op.product.current_price = 0 THEN ret = NoneVal
    ELSE SamePricePerUnit(ret, ClaimedPricePerUnit(op.product.current_price,
                                                   parse_product_attributes(op.product.name)))

\* A priced product with a volume and a weight gets a price per litre.
C16_Witness ==
  /\ PriceCalled
  /\ op.product.current_price > 0
  /\ TruthyNum(parse_product_attributes(op.product.name).volume_ml)
  /\ TruthyNum(parse_product_attributes(op.product.name).weight_g)
  /\ ret # NoneVal
  /\ Get(ret).unit = <<1083>>

(***************************************************************************)
(* The core operations leave the catalog alone                             *)
(***************************************************************************)
CoreOperations ==
  {"smart_search", "get_similar_products_v2", "find_exact_match_cross_store",
   "get_cross_store_comparison", "calculate_price_per_unit"}

\* C17: no call of smart_search, get_similar_products_v2,
\* find_exact_match_cross_store, get_cross_store_comparison or
\* calculate_price_per_unit changes a product record of the catalog or the
\* iteration order of RUSSIAN_BRANDS.
C17_NoMutation ==
  [][op'.name \in CoreOperations => (products' = products /\ brand_order' = brand_order)]_vars

\* A search has returned rows of a catalog whose names it had to normalize.
C17_Witness ==
  /\ op.name = "smart_search"
  /\ ret # <<>>
  /\ \A i \in 1..Len(ret) :
       /\ \E j \in 1..Len(products) : products[j] = ret[i][1]
       /\ normalize_text(ret[i][1].name) # ret[i][1].name

(***************************************************************************)
(* Properties of toggle_favorite                                           *)
(***************************************************************************)
\* The number of Favorite rows of a user for a product key.
RowsOfPair(rows, user, store_id, product_id) ==
  Cardinality({i \in 1..Len(rows) :
                 /\ rows[i].user = user
                 /\ rows[i].store_id = store_id
                 /\ rows[i].product_id = product_id})

AtMostOneRowPerPair ==
  \A user \in Users, key \in ProductKeys :
    RowsOfPair(favorites, user, key[1], key[2]) <= 1

\* The step is a POST of a logged-in user for a product of the catalog.
TogglePosted ==
  /\ op'.name = "toggle_favorite"
  /\ op'.method = "POST"
  /\ op'.user # NoneVal
  /\ \E i \in 1..Len(products) :
       products[i].store_id = op'.store_id /\ products[i].product_id = op'.product_id

\* The pair had no row and has one now, and the response says is_favorite
\* true; or it had a row and has none now, and the response says false.
ToggleFlipped ==
  LET before == RowsOfPair(favorites, Get(op'.user), op'.store_id, op'.product_id)
      after == RowsOfPair(favorites', Get(op'.user), op'.store_id, op'.product_id)
  IN  /\ ret'.status = 200
      /\ \/ before = 0 /\ after = 1 /\ ret'.is_favorite = TRUE
         \/ before = 1 /\ after = 0 /\ ret'.is_favorite = FALSE

\* C18: every toggle_favorite POST of a logged-in user for an existing
\* product flips the favorite status of the (user, product) pair and the
\* response says the new status; at no time does the pair have more than one
\* Favorite row.
C18_ToggleFlipsOneRow ==
  /\ []AtMostOneRowPerPair
  /\ [][TogglePosted => ToggleFlipped]_vars

\* A favorite is removed again while another pair keeps its row.
C18_Witness ==
  /\ op.name = "toggle_favorite"
  /\ ret = [status |-> 200, is_favorite |-> FALSE]
  /\ RowsOfPair(favorites, Get(op.user), op.store_id, op.product_id) = 0
  /\ favorites # <<>>

(***************************************************************************)
(* Properties of link_telegram                                             *)
(***************************************************************************)
\* The step is a link request of a logged-in user.
LinkPosted ==
  /\ op'.name = "link_telegram"
  /\ op'.user # NoneVal
  /\ op'.method = "POST"
  /\ op'.action = "link"

\* The stored codes that the submitted code matches and that are unused and
\* not expired when the request arrives.
MatchingCodes ==
  {i \in 1..Len(link_codes) :
     /\ link_codes[i].code = Upper(Strip(op'.code))
     /\ ~link_codes[i].is_used
     /\ link_codes[i].expires_at > now}

\* C19: link_telegram links the requesting user's profile to a Telegram chat
\* when the submitted code matches a stored code that is unused and not
\* expired, and then marks that code used; for an empty, unknown, expired or
\* already used code the profile's telegram_chat_id is left unchanged.
C19_LinksByValidCode ==
  [][LinkPosted =>
       IF MatchingCodes # {}
       THEN /\ ret'.message = "success"
            /\ profiles'[Get(op'.user)] # NoneVal
            /\ \A i \in MatchingCodes :
                 \E j \in 1..Len(link_codes') :
                   link_codes'[j].code = link_codes[i].code /\ link_codes'[j].is_used
       ELSE profiles'[Get(op'.user)] = profiles[Get(op'.user)]]_vars

(***************************************************************************)
(* The fallback of smart_search for a query of stop words                  *)
(***************************************************************************)
\* The query has 2+ characters and tokenize_query leaves no token.
StopWordsQuery ==
  /\ SearchCalled
  /\ Len(op.query) >= 2
  /\ tokenize_query(op.query) = <<>>

\* The whitespace-separated words of the normalized query.
QueryWords == Split(normalize_text(op.query))

\* The scanned products whose normalized name contains the normalized query.
ContainingRows ==
  {row \in ScannedRows : Contains(normalize_text(op.query), normalize_text(row.name))}

\* Every product of ContainingRows is returned, as far as the limit allows.
ContainingReturned ==
  \A row \in ContainingRows : row \in ReturnedRows \/ Len(ret) = op.limit

\* The query has a word, and every word of it is a stop word.
OnlyStopWords ==
  /\ QueryWords # <<>>
  /\ \A i \in 1..Len(QueryWords) : QueryWords[i] \in STOP_WORDS

\* C21 as stated: a query of 2+ characters that consists of stop words, for
\* which tokenize_query leaves no token, is searched, and every scanned
\* product whose normalized name contains the normalized query is returned
\* (within the limit).
C21_Original == (StopWordsQuery /\ OnlyStopWords) => ContainingReturned

\* C21: when tokenize_query leaves no token for a query of 2+ characters, the
\* words of 2+ characters of the normalized query are the tokens; if there is
\* such a word, every scanned product whose normalized name contains the
\* normalized query is returned within the limit, each returned product
\* matches the phrase or one of these words, and the phrase scores 100 and a
\* word 30; if there is none, the result is empty.
C21_StopWordsSearchedByLongWords ==
  StopWordsQuery =>
    IF \E i \in 1..Len(QueryWords) : Len(QueryWords[i]) >= 2
    THEN /\ ContainingReturned
         /\ \A i \in 1..Len(ret) :
              /\ ret[i][1] \in ContainingRows => ret[i][2] >= 100
              /\ ret[i][1] \notin ContainingRows =>
                   \E k \in 1..Len(QueryWords) :
                     /\ Len(QueryWords[k]) >= 2
                     /\ \/ Contains(QueryWords[k], normalize_text(ret[i][1].name))
                        \/ Contains(stem_russian(QueryWords[k]), normalize_text(ret[i][1].name))
    ELSE ret = <<>>

\* The stop word 'от' finds a product with 'от' in its name.
C21_Witness ==
  /\ StopWordsQuery
  /\ OnlyStopWords
  /\ ret # <<>>
  /\ ret[1][1] \in ContainingRows

(***************************************************************************)
(* Properties of stem_russian                                              *)
(***************************************************************************)
StemCalled == op.name = "stem_russian"

\* The listed endings that end the word and leave 3+ characters of it.
QualifyingEndings ==
  {k \in 1..Len(endings) :
     /\ EndsWith(op.word, endings[k])
     /\ Len(op.word) - Len(endings[k]) >= 3}

\* C22: stem_russian returns a word of fewer than 4 characters unchanged; of a
\* longer word it removes the longest listed suffix that ends the word and
\* leaves at least 3 characters, and returns the word unchanged when no
\* listed suffix qualifies; the result is a prefix of the input, of at least
\* 3 characters when the input has at least 3.
C22_StemRemovesLongestSuffix ==
  StemCalled =>
    /\ Len(op.word) < 4 => ret = op.word
    /\ (Len(op.word) >= 4 /\ QualifyingEndings = {}) => ret = op.word
    /\ (Len(op.word) >= 4 /\ QualifyingEndings # {}) =>
         \E k \in QualifyingEndings :
           /\ \A h \in QualifyingEndings : Len(endings[h]) <= Len(endings[k])
           /\ ret \o endings[k] = op.word
    /\ StartsWith(op.word, ret)
    /\ Len(op.word) >= 3 => Len(ret) >= 3

\* A listed suffix of 3 characters ends the word but would leave too little,
\* and the suffix of 1 character is removed.
C22_Witness ==
  /\ StemCalled
  /\ Len(op.word) = 4
  /\ \E k \in 1..Len(endings) : Len(endings[k]) = 3 /\ EndsWith(op.word, endings[k])
  /\ Len(ret) = 3

(***************************************************************************)
(* The fat percentage rule of calculate_similarity_score                   *)
(***************************************************************************)
\* The gate has passed: the score is not returned as 0 before the rules.
GatePassed ==
  /\ ScoreCalled
  /\ GateScore(op.attrs1, op.attrs2, normalize_text(op.name1), normalize_text(op.name2)) # 0

\* What the gate, the brand, the size and the common words add.
OtherRulesScore ==
  GateScore(op.attrs1, op.attrs2, normalize_text(op.name1), normalize_text(op.name2))
  + BrandScore(op.attrs1, op.attrs2)
  + SizeScore(op.attrs1, op.attrs2)
  + WordScore(NameWords(normalize_text(op.name1)), NameWords(normalize_text(op.name2)))

BothFatsPresent == op.attrs1.fat_percent # NoneVal /\ op.attrs2.fat_percent # NoneVal

BothFatsNonZero ==
  /\ BothFatsPresent
  /\ Get(op.attrs1.fat_percent).num # 0
  /\ Get(op.attrs2.fat_percent).num # 0

\* 8 for a difference below 0.5, 4 from there to below 1.5, else 0.
FatBonusByDifference ==
  LET d == Get(op.attrs1.fat_percent).num * Get(op.attrs2.fat_percent).den
           - Get(op.attrs2.fat_percent).num * Get(op.attrs1.fat_percent).den
      abs == IF d < 0 THEN -d ELSE d
      unit == Get(op.attrs1.fat_percent).den * Get(op.attrs2.fat_percent).den
  IN  IF 2 * abs < unit THEN 8
      ELSE IF 2 * abs < 3 * unit THEN 4
      ELSE 0

\* The result when the fat rule adds `bonus`.
ScoreWithFatBonus(bonus) ==
  IF OtherRulesScore + bonus < 100 THEN OtherRulesScore + bonus ELSE 100

\* C23 as stated: once the gate has passed, every pair of present fat
\* percentages, zero included, adds 8 for a difference below 0.5 and 4 for a
\* difference from 0.5 to below 1.5, and nothing is added otherwise.
C23_Original ==
  GatePassed =>
    ret = ScoreWithFatBonus(IF BothFatsPresent THEN FatBonusByDifference ELSE 0)

\* C23: once the gate has passed, every pair of present fat percentages other
\* than 0 adds 8 for a difference below 0.5 and 4 for a difference from 0.5 to
\* below 1.5; nothing is added for a larger difference, when either value is
\* absent, or when either value is 0.
C23_FatBonusForNonZeroPairs ==
  GatePassed =>
    ret = ScoreWithFatBonus(IF BothFatsNonZero THEN FatBonusByDifference ELSE 0)

\* The three cases of two values other than 0, below the cap of 100, and a
\* value of 0 that adds nothing.
C23_Witness ==
  /\ GatePassed
  /\ ret < 100
  /\ \/ BothFatsNonZero /\ ret = OtherRulesScore + 4
     \/ BothFatsNonZero /\ ret = OtherRulesScore + 8
        /\ op.attrs1.fat_percent # op.attrs2.fat_percent
     \/ BothFatsNonZero /\ FatBonusByDifference = 0 /\ ret = OtherRulesScore

(***************************************************************************)
(* The brand found by parse_product_attributes                             *)
(***************************************************************************)
\* The original-case name has no capitalized Latin word.
NoLatinBrand == ParseCalled /\ LatinBrandsFrom(op.product_name, 1) = <<>>

\* The known brands that occur in the text.
BrandsIn(text) == {b \in RUSSIAN_BRANDS : Contains(b, text)}

\* brand is a title-cased known brand of the text, and absent only when the
\* text has none.
BrandFoundIn(text) ==
  IF BrandsIn(text) = {} THEN ret.brand = NoneVal
  ELSE \E b \in BrandsIn(text) : ret.brand = Some(Title(b))

\* C24 as stated: without a capitalized Latin word in the name, brand is the
\* title-cased known brand occurring in the normalized name, and absent only
\* when none occurs there.
C24_Original == NoLatinBrand => BrandFoundIn(normalize_text(op.product_name))

\* C24: without a capitalized Latin word in the name, brand is the
\* title-cased known brand occurring in the lower-cased name (with 'ё' and
\* the whitespace as written), and absent only when none occurs there.
C24_BrandOfLowerCasedName == NoLatinBrand => BrandFoundIn(Lower(op.product_name))

\* A brand written in upper case is found and title-cased, every word of it.
C24_Witness ==
  /\ NoLatinBrand
  /\ ret.brand # NoneVal
  /\ ~Contains(Get(ret.brand), op.product_name)
  /\ \E i \in 1..Len(Get(ret.brand)) : Get(ret.brand)[i] = 32

(***************************************************************************)
(* Reproducibility of parse_product_attributes                             *)
(***************************************************************************)
\* C25: parse_product_attributes is reproducible: the brand and the product
\* type follow the declaration order of RUSSIAN_BRANDS and PRODUCT_TYPES, so
\* that a name yields the same attributes in every process, whatever order
\* the process iterates RUSSIAN_BRANDS in.
C25_FixedPriorityOrder ==
  ParseCalled =>
    /\ ret = ParseProductAttributes(op.product_name, RUSSIAN_BRANDS_LITERAL)
    /\ \A order \in BrandOrders : ret = ParseProductAttributes(op.product_name, order)

(***************************************************************************)
(* Properties of the price tracking of scrape                              *)
(***************************************************************************)
\* The step saves a scraped product: one with an id not seen in this run and
\* with a name.
ProductSaved ==
  /\ op.name = "scrape"
  /\ op'.name = "scrape"
  /\ ~Skipped(op.seen_ids, Get(op'.p))

\* The row of the saved product before the step, if it is already stored.
StoredBefore == RowsOfKey(products, op.store_id, Get(op'.p).id)

\* C26: when a scrape run sees an already stored product with a positive
\* price that differs from its stored current_price, exactly one PriceHistory
\* row is created, with the new price and the old price as previous_price,
\* and current_price becomes the new price; for the stored price itself no
\* row is created.
C26_PriceChangesRecorded ==
  [][(ProductSaved /\ StoredBefore # {}) =>
       \A i \in StoredBefore :
         IF Get(op'.p).price > 0 /\ Get(op'.p).price # products[i].current_price
         THEN /\ price_history' =
                   Append(price_history,
                          PriceHistory(products[i], Get(op'.p).price,
                                       Some(products[i].current_price)))
              /\ products'[i].current_price = Get(op'.p).price
         ELSE Get(op'.p).price = products[i].current_price =>
                price_history' = price_history]_vars

\* C27: after any sequence of scrape runs every stored product has
\* min_price <= current_price <= max_price.
C27_PriceWithinRange ==
  \A i \in 1..Len(products) :
    /\ products[i].min_price <= products[i].current_price
    /\ products[i].current_price <= products[i].max_price

(***************************************************************************)
(* The smallest scores of calculate_similarity_score                       *)
(***************************************************************************)
\* C28: calculate_similarity_score never returns a value from 1 to 22: a
\* score other than 0 is at least 23, the smallest gate bonus 20 plus the
\* smallest brand bonus 3, so that a score is above the floor of 20 exactly
\* when it is not 0.
C28_NoScoreFromOneToTwentyTwo ==
  ScoreCalled =>
    /\ ret \notin 1..22
    /\ ret # 0 => ret >= 20 + 3
    /\ ret > 20 <=> ret # 0

\* The gate passes by two common words only (20) and one side has a brand
\* (3): the score is 23 plus what the common words add.
C28_Witness ==
  /\ ScoreCalled
  /\ GateScore(op.attrs1, op.attrs2, normalize_text(op.name1), normalize_text(op.name2)) = 20
  /\ BrandScore(op.attrs1, op.attrs2) = 3
  /\ ret = 23 + WordScore(NameWords(normalize_text(op.name1)), NameWords(normalize_text(op.name2)))
  /\ ret < 35

(***************************************************************************)
(* The category argument of get_similar_products_v2                        *)
(***************************************************************************)
SimilarCalled == op.name = "get_similar_products_v2"

\* The values passed for category: none, '', and category names.
CategoryValues == Categories \cup {Some(<<>>), Some(K_Dairy), Some(K_Cheese)}

\* C29: get_similar_products_v2 does not use its category argument: for the
\* catalog and the other arguments of the call, every value of category gives
\* the returned list, and a candidate above the floor is returned, as far as
\* the limit allows, whatever its category.
C29_CategoryIgnored ==
  SimilarCalled =>
    /\ \A category \in CategoryValues :
         ret = get_similar_products_v2(op.store_id, op.product_name, op.product_id,
                                       op.current_price, category, op.limit)
    /\ \A row \in EligibleRows :
         \/ \E i \in 1..Len(ret) : ret[i].product = row
         \/ Len(ret) = op.limit

\* A category is passed, and products filed under two other categories are
\* returned.
C29_Witness ==
  /\ SimilarCalled
  /\ TruthyStr(op.category)
  /\ Len(ret) = 2
  /\ ret[1].product.category_name # Get(op.category)
  /\ ret[2].product.category_name # Get(op.category)
  /\ ret[1].product.category_name # ret[2].product.category_name

(***************************************************************************)
(* last_price after a pass of check_and_notify                             *)
(***************************************************************************)
\* The step is a pass of check_and_notify with a bot token configured.
PassStep ==
  op.name = "none" /\ op'.name = "check_and_notify" /\ op'.token # <<>>

\* An alert for any decrease, without a target price.
AnyDecreaseOnly(alert) == alert.notify_any_decrease /\ alert.target_price = NoneVal

\* The price of the product is below the last_price of the alert.
Dropped(alert) ==
  alert.last_price # NoneVal /\ CurrentPrice(alert) < Get(alert.last_price)

\* The calls of send_notification in calls that are made for the alert.
AttemptsFor(alert, calls) ==
  {k \in 1..Len(calls) : /\ TruthyStr(profiles[alert.user])
                         /\ calls[k].chat_id = Get(profiles[alert.user])
                         /\ calls[k].store_id = alert.store_id
                         /\ calls[k].product_id = alert.product_id}

\* C30: with a bot token configured, every active alert ends a pass of
\* check_and_notify with last_price equal to the current price of its
\* product, whether or not send_notification was called or succeeded.  Hence
\* for an alert with notify_any_decrease and no target price a pass calls
\* send_notification at most once, and only when the price is below
\* last_price, and the price comes to be below last_price only by a step
\* that lowers the price: one decrease, at most one attempt.
C30_LastPriceFollowsPrice ==
  [][ /\ PassStep =>
           \A i \in 1..Len(alerts) :
             /\ alerts[i].is_active =>
                  alerts'[i].last_price = Some(CurrentPrice(alerts[i]))
             /\ AnyDecreaseOnly(alerts[i]) =>
                  /\ Cardinality(AttemptsFor(alerts[i], sent')) <= 1
                  /\ AttemptsFor(alerts[i], sent') # {} =>
                       alerts[i].is_active /\ Dropped(alerts[i])
      /\ \A i \in 1..Len(alerts') :
           AnyDecreaseOnly(alerts'[i]) /\ Dropped(alerts[i])' =>
             /\ i <= Len(alerts)
             /\ Dropped(alerts[i]) \/ CurrentPrice(alerts[i])' < CurrentPrice(alerts[i])
    ]_vars

\* A pass with the token that calls send_notification for nobody, over an
\* active alert for any decrease that an earlier pass has notified of a
\* decrease: last_price is the current price.
C30_Witness ==
  /\ op.name = "check_and_notify"
  /\ op.token # <<>>
  /\ sent = <<>>
  /\ \E i \in 1..Len(alerts) :
       /\ alerts[i].is_active
       /\ AnyDecreaseOnly(alerts[i])
       /\ alerts[i].last_notified_at # NoneVal
       /\ alerts[i].last_price = Some(CurrentPrice(alerts[i]))
=============================================================================
